---- MODULE Spec2Model ----
(***************************************************************************)
(* Swundle orchestration (src/app/actions/swundle.js), the UTXO payment    *)
(* builder and the Ethereum transaction builder (src/services/Bitcore.ts)  *)
(* and the swap selector (src/app/selectors/swap.js) as state machines.    *)
(*                                                                         *)
(*   Spec     one swundle: createSwundle, initSwundle (fan-out, balance    *)
(*            check, orders, transactions), signSwundle, sendSwundle       *)
(*   SpecPay  Bitcore.buildPaymentTx applied to bounded inputs             *)
(***************************************************************************)
EXTENDS Integers, Sequences, FiniteSets, TLC

\* ---------------------------------------------------------------- bounds
MaxSwaps == 2
MaxUtxos == 2

\* ------------------------------------------------------- generic helpers
Range(s) == {s[i] : i \in DOMAIN s}

RECURSIVE SumSeq(_)
SumSeq(s) == IF s = <<>> THEN 0 ELSE Head(s) + SumSeq(Tail(s))

RECURSIVE FlatMap(_, _)
FlatMap(f, s) == IF s = <<>> THEN <<>> ELSE f[Head(s)] \o FlatMap(f, Tail(s))

\* ------------------------------------------------------------ JS values
Undef == -1          \* undefined where a number (BigNumber) is expected
Absent == -2         \* key not present in an object
Thrown == -3         \* evaluating the expression threw
NoTx == 0            \* swap.txId undefined
NoError == ""
NoSymbol == ""
NoLabel == ""

\* ------------------------------------------------- wallets of the store
WalletIds == {"eth1", "btc1"}
Symbols == {"ETH", "TOK", "BTC"}
\* (sendWalletId, sendSymbol) pairs a swap can have
Kinds == {<<"eth1", "ETH">>, <<"eth1", "TOK">>, <<"btc1", "BTC">>}
\* sendUnits of the swap at position i of the new swundle
SendUnitsAt(i) == i

WalletLabel(w) == IF w = "eth1" THEN "Main" ELSE NoLabel
WalletAddress(w) == IF w = "eth1" THEN "0xAb" ELSE "1btc"

\* String.prototype.toLowerCase on the addresses in use
ToLowerCase(a) == IF a = "0xAb" THEN "0xab" ELSE a

\* walletService: BitcoinWallet aggregates, EthereumWallet does not
\* (EthereumWallet._isAggregateTransactionSupported returns false)
isAggregateTransactionSupported(w, symbol) == w # "eth1"

\* ------------------------------------------------------ hex conversions
HexDigits == <<"0", "1", "2", "3", "4", "5", "6", "7",
               "8", "9", "a", "b", "c", "d", "e", "f">>

HexValue(d) == (CHOOSE k \in 1..16 : HexDigits[k] = d) - 1

RECURSIVE toHex(_)
toHex(n) ==
  IF n < 16 THEN <<HexDigits[n + 1]>>
  ELSE toHex(n \div 16) \o <<HexDigits[(n % 16) + 1]>>

RECURSIVE toNumber(_)
toNumber(h) ==
  IF Len(h) = 0 THEN 0
  ELSE 16 * toNumber(SubSeq(h, 1, Len(h) - 1)) + HexValue(h[Len(h)])

NoNonce == <<>>

VARIABLES
  swap,        \* store: swap records, id = index; the swundle's swaps are 1..Len(swap)
  txs,         \* store: transaction records by id (see TxIdFor)
  balances,    \* store: wallet id -> symbol -> balance, as last read by getState
  txCount,     \* network-reported transaction count of the Ethereum address
  pc,          \* position of the initSwundle promise chain
  fan,         \* per swap: state of updateMarketInfo(...).then(checkSufficientDeposit)
  orderIdx,    \* number of swaps processArray has passed to createOrder
  grpNext,     \* per (wallet, asset) group: position of the next swap to build
  previousTx,  \* per group: the closure variable previousTx of createSwundleTxs
  dispatched,  \* swundle-level actions dispatched by the current call
  result,      \* settlement of the promise returned by the current call
  called,      \* swap/tx thunks invoked by the current initSwundle run
  op,          \* "none" | "sign" | "send": the forEachSwap call in progress
  started,     \* swaps whose sign/send step was started in this call
  inflight,    \* swaps whose sign/send step has not settled
  resolved,    \* swaps whose sign/send step resolved in this call
  pay,         \* input and result of Bitcore.buildPaymentTx
  stat,        \* input and results of getSwapStatus / statusAllSwaps
  rst,         \* restoreSwundles: the payload, the store and the actions dispatched
  sto,         \* createSwundle / removeSwundle / dismissLatestSwundle on the store
  ethTx        \* input and result of EthereumWallet._createTransaction

orchVars == <<swap, txs, balances, txCount, pc, fan, orderIdx, grpNext,
              previousTx, dispatched, result, called,
              op, started, inflight, resolved>>
vars == <<swap, txs, balances, txCount, pc, fan, orderIdx, grpNext,
          previousTx, dispatched, result, called,
          op, started, inflight, resolved, pay, stat, rst, sto, ethTx>>

\* =====================================================================
\* Store records
\* =====================================================================
NoDeposit == ""

\* a swap as addSwap stores it: no error, no order, no transaction
NewSwap(kind, units) ==
  [sendWalletId |-> kind[1], sendSymbol |-> kind[2], sendUnits |-> units,
   error |-> NoError, deposit |-> NoDeposit, txId |-> NoTx, outputIndex |-> 0]

\* createSwapExtender: const tx = allTxs[txId] || {}
EmptyTx ==
  [walletId |-> "", assetSymbol |-> NoSymbol, amount |-> Undef,
   feeAmount |-> Undef, feeSymbol |-> NoSymbol, outputs |-> <<>>,
   nonce |-> NoNonce, from |-> ""]

SwapTx(s) == IF s.txId = NoTx THEN EmptyTx ELSE txs[s.txId]

\* The id (a uuid) of the transaction built for swap i, or for the group whose
\* first swap is i. A transaction that is built again for the same swaps
\* replaces the one no swap refers to any more.
TxIdFor(i) == i

SwapIds == 1..Len(swap)

\* =====================================================================
\* checkSufficientBalances (swundle.js 82-113)
\* =====================================================================
AllKeys == WalletIds \X Symbols

\* mergeWith customizer on one leaf: a BigNumber destination is a.plus(b),
\* which throws on an undefined b; otherwise the source value is assigned
MergeLeaf(a, b) ==
  IF a >= 0 THEN (IF b = Undef THEN Thrown ELSE a + b)
  ELSE b

EmptyTotals ==
  [keys |-> <<>>, amount |-> [k \in AllKeys |-> Absent],
   feeAmount |-> [k \in AllKeys |-> Absent], thrown |-> FALSE]

AddKey(keys, k) == IF k \in Range(keys) THEN keys ELSE Append(keys, k)

\* mergeSum(walletSendTotals, { [w]: { [s]: { amount } } })
MergeAmount(t, w, s, v) ==
  LET nv == MergeLeaf(t.amount[<<w, s>>], v) IN
  [t EXCEPT !.keys = AddKey(@, <<w, s>>),
            !.amount[<<w, s>>] = nv,
            !.thrown = @ \/ nv = Thrown]

\* mergeSum(walletSendTotals, { [w]: { [s]: { feeAmount } } })
MergeFee(t, w, s, v) ==
  LET nv == MergeLeaf(t.feeAmount[<<w, s>>], v) IN
  [t EXCEPT !.keys = AddKey(@, <<w, s>>),
            !.feeAmount[<<w, s>>] = nv,
            !.thrown = @ \/ nv = Thrown]

\* for comparison: the fee is charged to the asset the swap sends
AddSwapTotalsFeeToSendAsset(t, s) ==
  IF t.thrown \/ s.error # NoError THEN t
  ELSE LET tx == SwapTx(s)
           t1 == MergeAmount(t, s.sendWalletId, s.sendSymbol, tx.amount)
       IN IF t1.thrown \/ tx.feeAmount = Undef THEN t1
          ELSE MergeFee(t1, s.sendWalletId, s.sendSymbol, tx.feeAmount)

\* for comparison: a swap with an error is summed like any other
AddSwapTotalsWithErrors(t, s) ==
  IF t.thrown THEN t
  ELSE LET tx == SwapTx(s)
           t1 == MergeAmount(t, s.sendWalletId, s.sendSymbol, tx.amount)
       IN IF t1.thrown \/ tx.feeAmount = Undef THEN t1
          ELSE MergeFee(t1, s.sendWalletId, tx.feeSymbol, tx.feeAmount)

\* body of swundle.swaps.forEach (lines 88-96) for one swap
AddSwapTotals(t, s) ==
  IF t.thrown \/ s.error # NoError THEN t
  ELSE LET tx == SwapTx(s)
           t1 == MergeAmount(t, s.sendWalletId, s.sendSymbol, tx.amount)
       IN IF t1.thrown \/ tx.feeAmount = Undef THEN t1
          ELSE MergeFee(t1, s.sendWalletId, tx.feeSymbol, tx.feeAmount)

RECURSIVE walletSendTotals(_, _)
walletSendTotals(sw, k) ==
  IF k = 0 THEN EmptyTotals
  ELSE AddSwapTotals(walletSendTotals(sw, k - 1), sw[k])

\* Object.entries order: wallets as first inserted, then each wallet's symbols
\* as first inserted
RECURSIVE Distinct(_)
Distinct(s) ==
  IF s = <<>> THEN <<>>
  ELSE LET d == Distinct(SubSeq(s, 1, Len(s) - 1)) IN
       IF s[Len(s)] \in Range(d) THEN d ELSE Append(d, s[Len(s)])

EntriesOrder(keys) ==
  LET ws == Distinct([i \in DOMAIN keys |-> keys[i][1]])
      of == [w \in WalletIds |-> SelectSeq(keys, LAMBDA k : k[1] = w)]
  IN FlatMap(of, ws)

OrZero(v) == IF v < 0 THEN 0 ELSE v

\* balance.minus(amountPlusFee).isNegative()
Shortfall(t, k, bal) ==
  bal[k[1]][k[2]] - (OrZero(t.amount[k]) + OrZero(t.feeAmount[k])) < 0

\* const label = (allWallets[walletId] || {}).label || walletId
\* for comparison: the wallet named by its id alone
ErrorWalletId(w) == w

ErrorLabel(w) == IF WalletLabel(w) # NoLabel THEN WalletLabel(w) ELSE w

NoMessage == [msg |-> "", symbol |-> NoSymbol, wallet |-> ""]
Message(m) == [msg |-> m, symbol |-> NoSymbol, wallet |-> ""]
InsufficientMessage(k) ==
  [msg |-> "Insufficient balance for transaction fees",
   symbol |-> k[2], wallet |-> ErrorLabel(k[1])]

\* the value or the thrown error of checkSufficientBalances(swundle)
checkSufficientBalances(sw, bal) ==
  LET t == walletSendTotals(sw, Len(sw))
      order == EntriesOrder(t.keys)
      short == {i \in DOMAIN order : Shortfall(t, order[i], bal)}
  IN IF t.thrown THEN [ok |-> FALSE, error |-> Message("not a number")]
     ELSE IF short = {} THEN [ok |-> TRUE, error |-> NoMessage]
     ELSE LET first == CHOOSE i \in short : \A j \in short : i <= j
          IN [ok |-> FALSE, error |-> InsufficientMessage(order[first])]

\* =====================================================================
\* Environment of one run
\* =====================================================================
BalanceOf(eth, tok, btc) ==
  [w \in WalletIds |->
    [s \in Symbols |->
      IF w = "eth1" /\ s = "ETH" THEN eth
      ELSE IF w = "eth1" /\ s = "TOK" THEN tok
      ELSE IF w = "btc1" /\ s = "BTC" THEN btc
      ELSE 0]]

\* balances the store can hold when the check reads them: each asset either
\* short of or ample for the swaps of a swundle
BalanceProfiles ==
  {BalanceOf(3, 2, 4), BalanceOf(3, 9, 4), BalanceOf(9, 2, 9), BalanceOf(9, 9, 9)}

TxCounts == {5}

\* toTxFee(gasLimit, gasPrice) of one Ethereum transaction, and the miner fee
\* of one aggregate payment, in units of the fee asset
GasFee == 1
MinerFee == 1

QuoteError == "quote error"
DepositError == "insufficient deposit"
OrderError == "order error"
TxError == "tx error"
Reject == Message("request failed")

\* swundle-level actions (createAction payloads)
swundleAdded == [type |-> "ADDED", error |-> NoMessage]
initStarted == [type |-> "INIT_STARTED", error |-> NoMessage]
initSuccess == [type |-> "INIT_SUCCESS", error |-> NoMessage]
initFailed(e) == [type |-> "INIT_FAILED", error |-> e]
signStarted == [type |-> "SIGN_STARTED", error |-> NoMessage]
signSuccess == [type |-> "SIGN_SUCCESS", error |-> NoMessage]
signFailed(e) == [type |-> "SIGN_FAILED", error |-> e]
sendStarted == [type |-> "SEND_STARTED", error |-> NoMessage]
sendSuccess == [type |-> "SEND_SUCCESS", error |-> NoMessage]
sendFailed(e) == [type |-> "SEND_FAILED", error |-> e]

Pending == [state |-> "pending", error |-> NoMessage]
Resolved == [state |-> "resolved", error |-> NoMessage]
Rejected(e) == [state |-> "rejected", error |-> e]

SetError(s, e) == IF s.error = NoError THEN [s EXCEPT !.error = e] ELSE s

Init ==
  /\ swap = <<>>
  /\ txs = <<>>
  /\ balances = BalanceOf(0, 0, 0)
  /\ txCount \in TxCounts
  /\ pc = "idle"
  /\ fan = <<>>
  /\ orderIdx = 0
  /\ grpNext = [k \in Kinds |-> 0]
  /\ previousTx = [k \in Kinds |-> NoTx]
  /\ dispatched = <<>>
  /\ result = Pending
  /\ called = {}
  /\ op = "none"
  /\ started = {}
  /\ inflight = {}
  /\ resolved = {}
  /\ pay = <<>>
  /\ stat = <<>>
  /\ rst = <<>>
  /\ sto = <<>>
  /\ ethTx = <<>>

\* =====================================================================
\* createSwundle (swundle.js 169-185): addSwap for every new swap, ADDED,
\* then initSwundle
\* =====================================================================
CreateSwundle ==
  /\ pc = "idle"
  /\ \E n \in 0..MaxSwaps :
       \E kinds \in [1..n -> Kinds] :
         /\ swap' = [i \in 1..n |-> NewSwap(kinds[i], SendUnitsAt(i))]
         /\ txs' = [i \in 1..n |-> EmptyTx]
  /\ dispatched' = <<swundleAdded>>
  /\ pc' = "created"
  /\ UNCHANGED <<balances, txCount, fan, orderIdx, grpNext, previousTx,
                 result, called, op, started, inflight, resolved, pay, stat, rst, sto, ethTx>>

\* =====================================================================
\* initSwundle (swundle.js 149-167)
\* =====================================================================

\* for comparison: a handler that dispatches and throws the error again
initSwundleRethrow(e) == [dispatch |-> <<initFailed(e)>>, settle |-> Rejected(e)]

\* .catch((e) => dispatch(initFailed(swundle.id, e.message || e))): the
\* handler returns normally, so the returned promise resolves
initSwundleCatch(e) == [dispatch |-> <<initFailed(e)>>, settle |-> Resolved]

InitFail(e) ==
  /\ pc' = "failed"
  /\ dispatched' = dispatched \o initSwundleCatch(e).dispatch
  /\ result' = initSwundleCatch(e).settle

\* groups of createSwundleTxs: groupBy sendWalletId, then groupBy sendSymbol
GroupSwaps(k) ==
  SelectSeq([i \in SwapIds |-> i],
            LAMBDA i : swap[i].sendWalletId = k[1] /\ swap[i].sendSymbol = k[2])

GroupDone(k) == grpNext[k] = 0 \/ grpNext[k] > Len(GroupSwaps(k))

\* dispatch(initStarted(id)); updateMarketInfo is invoked for every swap by
\* the synchronous map. Runs after createSwundle's ADDED, or again on the
\* swundle of the store after a run that ended with INIT_SUCCESS.
InitSwundle ==
  /\ pc \in {"created", "success"}
  /\ dispatched' = <<initStarted>>
  /\ result' = Pending
  /\ balances' = BalanceOf(0, 0, 0)
  /\ called' = {<<"updateMarketInfo", i>> : i \in SwapIds}
  /\ fan' = [i \in SwapIds |-> "market"]
  /\ pc' = "fanout"
  /\ orderIdx' = 0
  /\ grpNext' = [k \in Kinds |-> 0]
  /\ previousTx' = [k \in Kinds |-> NoTx]
  /\ UNCHANGED <<swap, txs, txCount, op, started, inflight, resolved, pay, stat, rst, sto, ethTx>>

\* updateMarketInfo(swap) settles; on resolve checkSufficientDeposit is invoked
UpdateMarketInfoResolve(i) ==
  /\ fan[i] = "market"
  /\ fan' = [fan EXCEPT ![i] = "deposit"]
  /\ called' = called \cup {<<"checkSufficientDeposit", i>>}
  /\ \/ UNCHANGED swap
     \/ swap' = [swap EXCEPT ![i] = SetError(@, QuoteError)]
  /\ UNCHANGED <<txs, balances, txCount, pc, orderIdx, grpNext, previousTx,
                 dispatched, result, op, started, inflight, resolved, pay, stat, rst, sto, ethTx>>

\* checkSufficientDeposit(swap) resolves, with or without a swap error
CheckSufficientDepositResolve(i) ==
  /\ fan[i] = "deposit"
  /\ fan' = [fan EXCEPT ![i] = "resolved"]
  /\ \/ UNCHANGED swap
     \/ swap' = [swap EXCEPT ![i] = SetError(@, DepositError)]
  /\ UNCHANGED <<txs, balances, txCount, pc, orderIdx, grpNext, previousTx,
                 dispatched, result, called, op, started, inflight,
                 resolved, pay, stat, rst, sto, ethTx>>

\* either call of swap i rejects: Promise.all rejects on the first rejection
\* and the catch handler runs; later rejections are ignored
FanReject(i) ==
  /\ fan[i] \in {"market", "deposit"}
  /\ fan' = [fan EXCEPT ![i] = "rejected"]
  /\ IF pc = "fanout" THEN InitFail(Reject)
     ELSE UNCHANGED <<pc, dispatched, result>>
  /\ UNCHANGED <<swap, txs, balances, txCount, orderIdx, grpNext, previousTx,
                 called, op, started, inflight, resolved, pay, stat, rst, sto, ethTx>>

\* for comparison: a race, settled by the first swap that resolves
FanoutRaced == \E i \in DOMAIN fan : fan[i] = "resolved"

\* Promise.all(swundle.swaps.map(...)) has resolved
FanoutJoined == \A i \in DOMAIN fan : fan[i] = "resolved"

\* .then((s) => dispatch(checkSufficientBalances(s)))
CheckSufficientBalances ==
  /\ pc = "fanout"
  /\ FanoutJoined
  /\ \E bal \in BalanceProfiles :
       /\ balances' = bal
       /\ LET r == checkSufficientBalances(swap, bal) IN
            IF r.ok THEN /\ pc' = "orders"
                         /\ called' = called \cup {<<"checkSufficientBalances", 0>>,
                                                   <<"checkSufficientBalances.returned", 0>>}
                         /\ UNCHANGED <<dispatched, result>>
            ELSE /\ InitFail(r.error)
                 /\ called' = called \cup {<<"checkSufficientBalances", 0>>}
  /\ UNCHANGED <<swap, txs, txCount, fan, orderIdx, grpNext,
                 previousTx, op, started, inflight, resolved, pay, stat, rst, sto, ethTx>>

\* ---------------------------------------------------------------------
\* order placement: forEachSwap(s, (swap) => dispatch(createOrder(swap)))
\* ---------------------------------------------------------------------
DepositAddresses == <<"dep1", "dep2", "dep3", "dep4", "dep5">>

\* createOrder(swap): an errored swap is returned as it is; otherwise the
\* order (with its deposit address) or the order error is recorded on the swap
createOrderResults(i) ==
  IF swap[i].error # NoError THEN {swap[i]}
  ELSE {[swap[i] EXCEPT !.deposit = DepositAddresses[i]],
        [swap[i] EXCEPT !.error = OrderError]}

CreateOrder ==
  /\ pc = "orders"
  /\ orderIdx < Len(swap)
  /\ LET i == orderIdx + 1 IN
       /\ orderIdx' = i
       /\ \/ /\ \E s \in createOrderResults(i) : swap' = [swap EXCEPT ![i] = s]
             /\ called' = called \cup {<<"createOrder", i>>, <<"createOrder.resolved", i>>}
             /\ UNCHANGED <<pc, dispatched, result>>
          \/ /\ swap[i].error = NoError
             /\ called' = called \cup {<<"createOrder", i>>}
             /\ InitFail(Reject)
             /\ UNCHANGED swap
  /\ UNCHANGED <<txs, balances, txCount, fan, grpNext, previousTx,
                 op, started, inflight, resolved, pay, stat, rst, sto, ethTx>>

\* ---------------------------------------------------------------------
\* EthereumWallet._createTransaction (Bitcore.ts 369-424)
\* ---------------------------------------------------------------------
\* for comparison: the from addresses are compared as written
createTransactionNonceExact(optNonce, prev, from) ==
  LET customNonce ==
        IF optNonce = Undef /\ prev # NoTx /\ txs[prev].from = from
        THEN toNumber(txs[prev].nonce) + 1
        ELSE optNonce
  IN IF customNonce # Undef /\ customNonce # 0 THEN customNonce ELSE txCount

\* lines 396-402 and 410: the nonce of the new transaction
createTransactionNonce(optNonce, prev, from) ==
  LET customNonce ==
        IF optNonce = Undef /\ prev # NoTx
           /\ ToLowerCase(txs[prev].from) = ToLowerCase(from)
        THEN toNumber(txs[prev].nonce) + 1
        ELSE optNonce
  IN IF customNonce # Undef /\ customNonce # 0 THEN customNonce ELSE txCount

createTransaction(w, address, amount, symbol, optNonce, prev) ==
  [walletId |-> w, assetSymbol |-> symbol, amount |-> amount,
   feeAmount |-> GasFee, feeSymbol |-> "ETH",
   outputs |-> <<[address |-> address, amount |-> amount]>>,
   nonce |-> toHex(createTransactionNonce(optNonce, prev, WalletAddress(w))),
   from |-> WalletAddress(w)]

\* createAggregateTx(walletId, outputs, symbol): one payment with all outputs
createAggregateTx(w, outputs, symbol) ==
  [walletId |-> w, assetSymbol |-> symbol,
   amount |-> SumSeq([j \in DOMAIN outputs |-> outputs[j].amount]),
   feeAmount |-> MinerFee, feeSymbol |-> symbol, outputs |-> outputs,
   nonce |-> NoNonce, from |-> WalletAddress(w)]

\* setSwapTx(swapId, tx, outputIndex)
setSwapTx(s, txId, i) == [s EXCEPT !.txId = txId, !.outputIndex = i]

\* ---------------------------------------------------------------------
\* createSwundleTxs (swundle.js 115-147)
\* ---------------------------------------------------------------------
\* for comparison: the outputs of a group in reverse swap order
ReversedOutputs(ids) ==
  [j \in DOMAIN ids |->
    [address |-> swap[ids[Len(ids) + 1 - j]].deposit,
     amount |-> swap[ids[Len(ids) + 1 - j]].sendUnits]]

\* lines 129-132: outputs of the aggregate transaction of a group
AggregateOutputs(ids) ==
  [j \in DOMAIN ids |->
    [address |-> swap[ids[j]].deposit, amount |-> swap[ids[j]].sendUnits]]

\* line 134: swaps.map((swap, i) => dispatch(setSwapTx(swap.id, tx, i)))
AttachAggregate(ids, txId) ==
  [i \in SwapIds |->
    IF \E j \in DOMAIN ids : ids[j] = i
    THEN setSwapTx(swap[i], txId, (CHOOSE j \in DOMAIN ids : ids[j] = i) - 1)
    ELSE swap[i]]

\* line 127: the whole group is skipped when one of its swaps has an error
AggregateSkipped(ids) == \E j \in DOMAIN ids : swap[ids[j]].error # NoError

\* .then((s) => dispatch(createSwundleTxs(s))): every group is started
CreateSwundleTxs ==
  /\ pc = "orders"
  /\ orderIdx = Len(swap)
  /\ pc' = "txs"
  /\ grpNext' = [k \in Kinds |-> 1]
  /\ previousTx' = [k \in Kinds |-> NoTx]
  /\ UNCHANGED <<swap, txs, balances, txCount, fan, orderIdx, dispatched,
                 result, called, op, started, inflight, resolved, pay, stat, rst, sto, ethTx>>

\* a group whose wallet supports aggregate transactions (lines 126-134)
BuildAggregateTx(k) ==
  /\ ~GroupDone(k)
  /\ isAggregateTransactionSupported(k[1], k[2])
  /\ LET ids == GroupSwaps(k) IN
       /\ grpNext' = [grpNext EXCEPT ![k] = Len(ids) + 1]
       /\ IF AggregateSkipped(ids)
          THEN UNCHANGED <<swap, txs, called, pc, dispatched, result>>
          ELSE /\ called' = called \cup {<<"createAggregateTx", ids[1]>>}
               /\ \/ /\ txs' = [txs EXCEPT ![TxIdFor(ids[1])] =
                                    createAggregateTx(k[1], AggregateOutputs(ids), k[2])]
                     /\ swap' = AttachAggregate(ids, TxIdFor(ids[1]))
                     /\ UNCHANGED <<pc, dispatched, result>>
                  \/ /\ IF pc = "txs" THEN InitFail(Reject)
                        ELSE UNCHANGED <<pc, dispatched, result>>
                     /\ UNCHANGED <<swap, txs>>
  /\ UNCHANGED <<balances, txCount, fan, orderIdx, previousTx, op,
                 started, inflight, resolved, pay, stat, rst, sto, ethTx>>

\* the next swap of a group without aggregate transactions (lines 137-143):
\* createSwapTx(swap, { ...options, previousTx }) builds the transaction and
\* attaches it, or records the error on the swap and resolves with it
CreateSwapTx(k) ==
  /\ ~GroupDone(k)
  /\ ~isAggregateTransactionSupported(k[1], k[2])
  /\ LET ids == GroupSwaps(k)
         i == ids[grpNext[k]]
         tx == createTransaction(k[1], swap[i].deposit, swap[i].sendUnits,
                                 k[2], Undef, previousTx[k])
     IN /\ grpNext' = [grpNext EXCEPT ![k] = @ + 1]
        /\ called' = called \cup {<<"createSwapTx", i>>}
        /\ IF swap[i].error # NoError
           THEN UNCHANGED <<swap, txs, previousTx>>
           ELSE \/ /\ txs' = [txs EXCEPT ![TxIdFor(i)] = tx]
                   /\ swap' = [swap EXCEPT ![i] = setSwapTx(@, TxIdFor(i), 0)]
                   /\ previousTx' = [previousTx EXCEPT ![k] = TxIdFor(i)]
                \/ /\ swap' = [swap EXCEPT ![i] = SetError(@, TxError)]
                   /\ UNCHANGED <<txs, previousTx>>
  /\ UNCHANGED <<balances, txCount, pc, fan, orderIdx, dispatched, result, op, started, inflight, resolved, pay, stat, rst, sto, ethTx>>

\* every group promise has resolved: dispatch(initSuccess(swundle.id))
InitSuccess ==
  /\ pc = "txs"
  /\ \A k \in Kinds : grpNext[k] > Len(GroupSwaps(k))
  /\ pc' = "success"
  /\ dispatched' = Append(dispatched, initSuccess)
  /\ result' = Resolved
  /\ UNCHANGED <<swap, txs, balances, txCount, fan, orderIdx, grpNext,
                 previousTx, called, op, started, inflight, resolved, pay, stat, rst, sto, ethTx>>

\* =====================================================================
\* signSwundle / sendSwundle (swundle.js 187-214)
\* =====================================================================
StepErrors == {Message("device error"), Message("user cancelled")}

Running == op \in {"sign", "send"}

\* processArray(array, handler): the handler of element i is called once the
\* handlers of all elements before it have resolved, in array order
processArrayMayStart(i) ==
  /\ i \notin started
  /\ \A j \in 1..(i - 1) : j \in resolved

\* for comparison: Promise.all(array.map(handler)), every handler called at once
mapAllMayStart(i) == i \notin started

\* forEachSwap = processArray(swundle.swaps, handler)
forEachSwapMayStart(i) == processArrayMayStart(i)

\* for comparison: a handler that dispatches and returns normally
signSwundleSwallow(e) == [dispatch |-> <<signFailed(e)>>, settle |-> Resolved]

\* .catch((e) => { dispatch(signFailed(swundle.id, e.message)); throw e })
signSwundleCatch(e) == [dispatch |-> <<signFailed(e)>>, settle |-> Rejected(e)]

\* .catch((e) => { dispatch(sendFailed(swundle.id, e.message)); throw e })
sendSwundleCatch(e) == [dispatch |-> <<sendFailed(e)>>, settle |-> Rejected(e)]

SignSwundle ==
  /\ op \in {"none", "signFailed"}
  /\ inflight = {}
  /\ op' = "sign"
  /\ dispatched' = <<signStarted>>
  /\ result' = Pending
  /\ started' = {}
  /\ resolved' = {}
  /\ UNCHANGED <<swap, txs, balances, txCount, pc, fan, orderIdx, grpNext,
                 previousTx, called, inflight, pay, stat, rst, sto, ethTx>>

SendSwundle ==
  /\ op \in {"signed", "sendFailed"}
  /\ inflight = {}
  /\ op' = "send"
  /\ dispatched' = <<sendStarted>>
  /\ result' = Pending
  /\ started' = {}
  /\ resolved' = {}
  /\ UNCHANGED <<swap, txs, balances, txCount, pc, fan, orderIdx, grpNext,
                 previousTx, called, inflight, pay, stat, rst, sto, ethTx>>

\* dispatch(signSwap(swap, passwordCache)) / dispatch(sendSwap(swap, sendOptions))
StepStart(i) ==
  /\ Running
  /\ forEachSwapMayStart(i)
  /\ started' = started \cup {i}
  /\ inflight' = inflight \cup {i}
  /\ UNCHANGED <<swap, txs, balances, txCount, pc, fan, orderIdx, grpNext,
                 previousTx, dispatched, result, called, op, resolved, pay, stat, rst, sto, ethTx>>

StepResolve(i) ==
  /\ i \in inflight
  /\ inflight' = inflight \ {i}
  /\ resolved' = resolved \cup {i}
  /\ UNCHANGED <<swap, txs, balances, txCount, pc, fan, orderIdx, grpNext,
                 previousTx, dispatched, result, called, op, started, pay, stat, rst, sto, ethTx>>

StepReject(i) ==
  /\ i \in inflight
  /\ inflight' = inflight \ {i}
  /\ \E e \in StepErrors :
       IF op = "sign"
       THEN /\ op' = "signFailed"
            /\ dispatched' = dispatched \o signSwundleCatch(e).dispatch
            /\ result' = signSwundleCatch(e).settle
       ELSE IF op = "send"
       THEN /\ op' = "sendFailed"
            /\ dispatched' = dispatched \o sendSwundleCatch(e).dispatch
            /\ result' = sendSwundleCatch(e).settle
       ELSE UNCHANGED <<op, dispatched, result>>
  /\ UNCHANGED <<swap, txs, balances, txCount, pc, fan, orderIdx, grpNext,
                 previousTx, called, started, resolved, pay, stat, rst, sto, ethTx>>

\* forEachSwap resolved: dispatch(signSuccess(id)) / dispatch(sendSuccess(id))
StepsSuccess ==
  /\ Running
  /\ resolved = SwapIds
  /\ dispatched' = Append(dispatched, IF op = "sign" THEN signSuccess ELSE sendSuccess)
  /\ op' = IF op = "sign" THEN "signed" ELSE "sent"
  /\ result' = Resolved
  /\ UNCHANGED <<swap, txs, balances, txCount, pc, fan, orderIdx, grpNext,
                 previousTx, called, started, inflight, resolved, pay, stat, rst, sto, ethTx>>

Next ==
  \/ CreateSwundle
  \/ InitSwundle
  \/ \E i \in DOMAIN fan : UpdateMarketInfoResolve(i)
  \/ \E i \in DOMAIN fan : CheckSufficientDepositResolve(i)
  \/ \E i \in DOMAIN fan : FanReject(i)
  \/ CheckSufficientBalances
  \/ CreateOrder
  \/ CreateSwundleTxs
  \/ \E k \in Kinds : BuildAggregateTx(k)
  \/ \E k \in Kinds : CreateSwapTx(k)
  \/ InitSuccess

Spec == Init /\ [][Next]_vars

\* signSwundle and sendSwundle on a swundle of the store after INIT_SUCCESS:
\* every swap has its order and its transaction, the swaps of a group with
\* aggregate transactions share the one of the group's first swap
InitSign ==
  /\ \E n \in 0..MaxSwaps :
       \E kinds \in [1..n -> Kinds] :
         LET Shared(i) == isAggregateTransactionSupported(kinds[i][1], kinds[i][2])
             First(i) == IF Shared(i)
                         THEN CHOOSE j \in 1..i :
                                /\ kinds[j] = kinds[i]
                                /\ \A l \in 1..(j - 1) : kinds[l] # kinds[i]
                         ELSE i
             Group(i) == SelectSeq([j \in 1..n |-> j], LAMBDA j : First(j) = i)
             Index(i) == Cardinality({j \in 1..(i - 1) : First(j) = First(i)})
             Outputs(i) == [j \in DOMAIN Group(i) |->
                             [address |-> DepositAddresses[Group(i)[j]],
                              amount |-> SendUnitsAt(Group(i)[j])]]
         IN /\ swap = [i \in 1..n |->
                        setSwapTx([NewSwap(kinds[i], SendUnitsAt(i)) EXCEPT
                                     !.deposit = DepositAddresses[i]],
                                  TxIdFor(First(i)), Index(i))]
            /\ txs = [i \in 1..n |->
                       IF First(i) # i THEN EmptyTx
                       ELSE IF Shared(i)
                       THEN createAggregateTx(kinds[i][1], Outputs(i), kinds[i][2])
                       ELSE [walletId |-> kinds[i][1], assetSymbol |-> kinds[i][2],
                             amount |-> SendUnitsAt(i), feeAmount |-> GasFee,
                             feeSymbol |-> "ETH", outputs |-> Outputs(i),
                             nonce |-> toHex(i), from |-> WalletAddress(kinds[i][1])]]
            /\ fan = [i \in 1..n |-> "resolved"]
  /\ balances = BalanceOf(0, 0, 0)
  /\ txCount \in TxCounts
  /\ pc = "success"
  /\ orderIdx = Len(swap)
  /\ grpNext = [k \in Kinds |-> 0]
  /\ previousTx = [k \in Kinds |-> NoTx]
  /\ dispatched = <<>>
  /\ result = Pending
  /\ called = {}
  /\ op = "none"
  /\ started = {}
  /\ inflight = {}
  /\ resolved = {}
  /\ pay = <<>>
  /\ stat = <<>>
  /\ rst = <<>>
  /\ sto = <<>>
  /\ ethTx = <<>>

NextSign ==
  \/ SignSwundle
  \/ SendSwundle
  \/ \E i \in SwapIds : StepStart(i)
  \/ \E i \in SwapIds : StepResolve(i)
  \/ \E i \in SwapIds : StepReject(i)
  \/ StepsSuccess

SpecSign == InitSign /\ [][NextSign]_vars

\* =====================================================================
\* Bitcore.buildPaymentTx (Bitcore.ts 88-101, 173-246)
\* =====================================================================
MaxOutputs == 2

MatureConfirmations == 6
DefaultDustThreshold == 546

UtxoValues == {1, 500, 1000}
Confirmations == {0, 3, 6}
OutputAmounts == {500, 700, 1000}
FeeRates == {0, 1, 2}
DustThresholds == {0, DefaultDustThreshold}
ChangeAddresses == <<"chg0", "chg1">>
PayAddresses == <<"pay1", "pay2", "pay3">>

NoAddress == ""
NoPath == <<>>
NoThrow == ""
NotEnoughUtxos == "You do not have enough UTXOs to send"
BelowDust == "First output minus fee is below dust threshold"
TypeError == "TypeError"

\* Array.prototype.sort with a numeric comparator, stable: x is placed before
\* the first element whose key is greater
RECURSIVE InsertStable(_, _, _)
InsertStable(sorted, x, key) ==
  IF sorted = <<>> THEN <<x>>
  ELSE IF key[x] < key[Head(sorted)] THEN <<x>> \o sorted
  ELSE <<Head(sorted)>> \o InsertStable(Tail(sorted), x, key)

RECURSIVE SortStable(_, _)
SortStable(s, key) ==
  IF s = <<>> THEN <<>>
  ELSE InsertStable(SortStable(SubSeq(s, 1, Len(s) - 1), key), s[Len(s)], key)

\* for comparison: every utxo ascending by value, mature or not
sortByValueOnly(utxoList) ==
  SortStable(utxoList, [u \in Range(utxoList) |-> u.value])

\* mature utxos ascending by value, then immature ones descending by confirmations
sortUtxos(utxoList) ==
  LET matureList == SelectSeq(utxoList, LAMBDA u : u.confirmations >= MatureConfirmations)
      immatureList == SelectSeq(utxoList, LAMBDA u : ~(u.confirmations >= MatureConfirmations))
  IN SortStable(matureList, [u \in Range(matureList) |-> u.value])
     \o SortStable(immatureList, [u \in Range(immatureList) |-> 0 - u.confirmations])

\* estimateTxFee(feeRate, inputCount, outputCount, isSegwit): the fee rate
\* times the size of a transaction of that shape
estimateTxFee(feeRate, inputCount, outputCount, isSegwit) ==
  feeRate * (10 + inputCount * (IF isSegwit THEN 91 ELSE 148) + outputCount * 34)

TotalValue(utxos) == SumSeq([j \in DOMAIN utxos |-> utxos[j].value])
TotalAmount(outputs) == SumSeq([j \in DOMAIN outputs |-> outputs[j].amount])

\* lines 193-201: for (const utxo of sortedUtxos) { ... if (inputTotal >= amountWithFee) break }
RECURSIVE SelectInputs(_, _, _)
SelectInputs(st, rest, p) ==
  IF rest = <<>> THEN st
  ELSE LET fee == estimateTxFee(p.feeRate, Len(st.inputUtxos) + 1, p.outputCount, p.isSegwit)
           amountWithFee == p.outputTotal + fee
           inputTotal == st.inputTotal + Head(rest).value
           nx == [fee |-> fee, amountWithFee |-> amountWithFee,
                  inputUtxos |-> Append(st.inputUtxos, Head(rest)),
                  inputTotal |-> inputTotal]
       IN IF inputTotal >= amountWithFee THEN nx ELSE SelectInputs(nx, Tail(rest), p)

\* for comparison: the fee is taken from the last output
SubtractFeeFromLast(outputs, fee) ==
  [outputs EXCEPT ![Len(outputs)].amount = @ - fee]

\* for comparison: the fee is reported but left on the first output
KeepFirstOutput(outputs, fee) == outputs

\* lines 208-209: outputs[0].amount -= fee
SubtractFeeFromFirst(outputs, fee) == [outputs EXCEPT ![1].amount = @ - fee]

PaymentThrows(e) ==
  [thrown |-> e, inputUtxos |-> <<>>, outputs |-> <<>>, fee |-> 0, change |-> 0,
   changePath |-> NoPath, changeAddress |-> NoAddress, isSegwit |-> FALSE]

\* for comparison: any positive change becomes an output, dust or not
PaymentWithAnyChange(sel, outputs, amountWithFee, account, isSegwit, dustThreshold) ==
  LET change == sel.inputTotal - amountWithFee IN
  IF change > 0
  THEN [thrown |-> NoThrow, inputUtxos |-> sel.inputUtxos, outputs |-> outputs,
        fee |-> sel.fee, change |-> change,
        changePath |-> <<1, account.changeIndex>>,
        changeAddress |-> account.changeAddresses[account.changeIndex + 1],
        isSegwit |-> isSegwit]
  ELSE [thrown |-> NoThrow, inputUtxos |-> sel.inputUtxos, outputs |-> outputs,
        fee |-> sel.fee + change, change |-> 0,
        changePath |-> NoPath, changeAddress |-> NoAddress, isSegwit |-> isSegwit]

\* for comparison: change up to the dust threshold is dropped, the fee stays
\* the estimate
PaymentDroppingDust(sel, outputs, amountWithFee, account, isSegwit, dustThreshold) ==
  LET change == sel.inputTotal - amountWithFee IN
  IF change > dustThreshold
  THEN [thrown |-> NoThrow, inputUtxos |-> sel.inputUtxos, outputs |-> outputs,
        fee |-> sel.fee, change |-> change,
        changePath |-> <<1, account.changeIndex>>,
        changeAddress |-> account.changeAddresses[account.changeIndex + 1],
        isSegwit |-> isSegwit]
  ELSE [thrown |-> NoThrow, inputUtxos |-> sel.inputUtxos, outputs |-> outputs,
        fee |-> sel.fee, change |-> 0,
        changePath |-> NoPath, changeAddress |-> NoAddress, isSegwit |-> isSegwit]

\* lines 223-245: the change output, or the change folded into the fee
PaymentWithChange(sel, outputs, amountWithFee, account, isSegwit, dustThreshold) ==
  LET change == sel.inputTotal - amountWithFee IN
  IF change > dustThreshold
  THEN [thrown |-> NoThrow, inputUtxos |-> sel.inputUtxos, outputs |-> outputs,
        fee |-> sel.fee, change |-> change,
        changePath |-> <<1, account.changeIndex>>,
        changeAddress |-> account.changeAddresses[account.changeIndex + 1],
        isSegwit |-> isSegwit]
  ELSE [thrown |-> NoThrow, inputUtxos |-> sel.inputUtxos, outputs |-> outputs,
        fee |-> sel.fee + change, change |-> 0,
        changePath |-> NoPath, changeAddress |-> NoAddress, isSegwit |-> isSegwit]

buildPaymentTx(account, desiredOutputs, feeRate, isSegwit, dustThreshold) ==
  LET sortedUtxos == sortUtxos(account.utxos)
      outputs == [j \in DOMAIN desiredOutputs |->
                   [address |-> desiredOutputs[j].address,
                    amount |-> desiredOutputs[j].amount]]
      outputCount == Len(outputs) + 1
      outputTotal == TotalAmount(outputs)
      sel == SelectInputs([fee |-> 0, amountWithFee |-> outputTotal,
                           inputUtxos |-> <<>>, inputTotal |-> 0],
                          sortedUtxos,
                          [feeRate |-> feeRate, outputCount |-> outputCount,
                           isSegwit |-> isSegwit, outputTotal |-> outputTotal])
  IN IF sel.amountWithFee > sel.inputTotal
     THEN IF outputTotal = sel.inputTotal
          THEN IF outputs = <<>> THEN PaymentThrows(TypeError)
               ELSE LET adjusted == SubtractFeeFromFirst(outputs, sel.fee) IN
                    IF adjusted[1].amount <= dustThreshold
                    THEN PaymentThrows(BelowDust)
                    ELSE PaymentWithChange(sel, adjusted, outputTotal, account,
                                           isSegwit, dustThreshold)
          ELSE PaymentThrows(NotEnoughUtxos)
     ELSE PaymentWithChange(sel, outputs, sel.amountWithFee, account,
                            isSegwit, dustThreshold)

NoPayment == PaymentThrows(NoThrow)

\* a call of buildPaymentTx on an account, and its outcome; the desired
\* outputs are the outputs of at least one swap
InitPay ==
  /\ \E n \in 0..MaxUtxos, m \in 1..MaxOutputs :
       \E values \in [1..n -> UtxoValues], confs \in [1..n -> Confirmations],
          amounts \in [1..m -> OutputAmounts] :
         \E feeRate \in FeeRates, isSegwit \in BOOLEAN, changeIndex \in {0, 1},
            dustThreshold \in DustThresholds :
           pay = [stage |-> "call",
                  account |-> [utxos |-> [j \in 1..n |->
                                           [value |-> values[j],
                                            confirmations |-> confs[j],
                                            index |-> j]],
                               changeIndex |-> changeIndex,
                               changeAddresses |-> ChangeAddresses],
                  desiredOutputs |-> [j \in 1..m |->
                                       [address |-> PayAddresses[j],
                                        amount |-> amounts[j]]],
                  feeRate |-> feeRate,
                  isSegwit |-> isSegwit,
                  dustThreshold |-> dustThreshold,
                  result |-> NoPayment]
  /\ swap = <<>>
  /\ txs = <<>>
  /\ balances = BalanceOf(0, 0, 0)
  /\ txCount \in TxCounts
  /\ pc = "idle"
  /\ fan = <<>>
  /\ orderIdx = 0
  /\ grpNext = [k \in Kinds |-> 0]
  /\ previousTx = [k \in Kinds |-> NoTx]
  /\ dispatched = <<>>
  /\ result = Pending
  /\ called = {}
  /\ op = "none"
  /\ started = {}
  /\ inflight = {}
  /\ resolved = {}
  /\ stat = <<>>
  /\ rst = <<>>
  /\ sto = <<>>
  /\ ethTx = <<>>

BuildPaymentTx ==
  /\ pay # <<>>
  /\ pay.stage = "call"
  /\ pay' = [pay EXCEPT !.stage = "done",
                        !.result = buildPaymentTx(pay.account, pay.desiredOutputs,
                                                  pay.feeRate, pay.isSegwit,
                                                  pay.dustThreshold)]
  /\ UNCHANGED orchVars
  /\ UNCHANGED <<stat, rst, sto, ethTx>>

NextPay == BuildPaymentTx

SpecPay == InitPay /\ [][NextPay]_vars

\* =====================================================================
\* getSwapStatus, statusAllSwaps, getSwapFriendlyError (Bitcore.ts 480-574)
\* =====================================================================
MaxStatusSwaps == 2

\* JavaScript values: undefined, a string (its characters; a literal of the
\* source is kept as one piece) or an object
JsUndefined == [type |-> "undefined", chars |-> <<>>]
JsObject == [type |-> "object", chars |-> <<>>]
JsString(cs) == [type |-> "string", chars |-> cs]
Literal(text) == JsString(<<text>>)
Null == "null"

Truthy(v) == v.type = "object" \/ (v.type = "string" /\ v.chars # <<>>)
isString(v) == v.type = "string"

\* String.prototype.toLowerCase, character by character
toLowerCase(cs) ==
  LET UpperCase ==
        <<"A", "B", "C", "D", "E", "F", "G", "H", "I", "J", "K", "L", "M",
          "N", "O", "P", "Q", "R", "S", "T", "U", "V", "W", "X", "Y", "Z">>
      LowerCase ==
        <<"a", "b", "c", "d", "e", "f", "g", "h", "i", "j", "k", "l", "m",
          "n", "o", "p", "q", "r", "s", "t", "u", "v", "w", "x", "y", "z">>
  IN [k \in DOMAIN cs |->
        IF \E u \in DOMAIN UpperCase : UpperCase[u] = cs[k]
        THEN LowerCase[CHOOSE u \in DOMAIN UpperCase : UpperCase[u] = cs[k]]
        ELSE cs[k]]

\* String.prototype.includes
includes(cs, needle) ==
  \E k \in 0..(Len(cs) - Len(needle)) : SubSeq(cs, k + 1, k + Len(needle)) = needle

InsufficientFundsText ==
  <<"i", "n", "s", "u", "f", "f", "i", "c", "i", "e", "n", "t", " ",
    "f", "u", "n", "d", "s">>

\* createStatus(code, label, labelClass)(detailsCode, details)
statusPending(detailsCode, details) ==
  [code |-> "pending", label |-> "Processing", labelClass |-> "text-primary",
   detailsCode |-> detailsCode, details |-> details]
statusFailed(detailsCode, details) ==
  [code |-> "failed", label |-> "Failed", labelClass |-> "text-warning",
   detailsCode |-> detailsCode, details |-> details]
statusComplete(detailsCode, details) ==
  [code |-> "complete", label |-> "Complete", labelClass |-> "text-success",
   detailsCode |-> detailsCode, details |-> details]

getSwapFriendlyError(sw) ==
  IF ~Truthy(sw.error) THEN sw.error
  ELSE IF isString(sw.error)
          /\ sw.errorType = Literal("pollTransactionReceipt")
  THEN Literal("Failed to check deposit txn status")
  ELSE IF isString(sw.error) /\ sw.errorType = Literal("sendTransaction")
  THEN Literal("Error sending deposit txn")
  ELSE IF isString(sw.error) /\ isString(sw.errorType)
  THEN sw.error
  ELSE Literal("Unknown error")

\* lines 494-539: the status of a swap that has no error of its own
orderStatus(sw) ==
  LET tx == sw.tx IN
  IF ~sw.order.present
  THEN statusPending("creating_order", Literal("creating swap order"))
  ELSE IF Truthy(sw.order.error)
  THEN statusFailed("order_error",
                    IF isString(sw.order.error) THEN sw.order.error
                    ELSE Literal("order error"))
  ELSE IF sw.order.status = "failed"
  THEN statusFailed("order_failed", Literal("order was unsuccessful"))
  ELSE IF sw.order.status = "cancelled"
  THEN statusFailed("order_cancelled", Literal("order was cancelled"))
  ELSE IF sw.order.status = "complete"
  THEN statusComplete("order_complete", Literal("order completed successfully"))
  ELSE IF sw.rate = Undef
  THEN statusPending("fetching_rate", Literal("fetching market info"))
  ELSE IF ~tx.present
  THEN statusPending("creating_tx", Literal("generating transaction"))
  ELSE IF tx.receipt THEN statusPending("processing", Literal("processing swap"))
  ELSE IF Truthy(tx.sendingError) THEN statusFailed("send_tx_error", tx.sendingError)
  ELSE IF tx.sending THEN statusPending("sending", Literal("sending transaction"))
  ELSE IF tx.sent
  THEN statusPending("pending_receipt", Literal("waiting for transaction receipt"))
  ELSE IF Truthy(tx.signingError) THEN statusFailed("sign_tx_error", tx.signingError)
  ELSE IF tx.signing THEN statusPending("signing", Literal("awaiting signature"))
  ELSE IF tx.signed THEN statusPending("signed", Literal("signed"))
  ELSE IF ~tx.signingSupported
  THEN statusPending("signing_unsupported", Literal("wallet cannot sign"))
  ELSE statusPending("unsigned", Literal("unsigned"))

\* for comparison: a completed order is reported before the swap's own error
getSwapStatusOrderFirst(sw) ==
  IF sw.order.present /\ sw.order.status = "complete"
  THEN statusComplete("order_complete", Literal("order completed successfully"))
  ELSE IF Truthy(sw.error)
  THEN statusFailed("error", getSwapFriendlyError(sw))
  ELSE orderStatus(sw)

getSwapStatus(sw) ==
  IF Truthy(sw.error)
  THEN IF isString(sw.error)
          /\ includes(toLowerCase(sw.error.chars), InsufficientFundsText)
       THEN statusFailed("insufficient_funds", Literal("insufficient funds"))
       ELSE statusFailed("error", getSwapFriendlyError(sw))
  ELSE orderStatus(sw)

\* for comparison: pending is looked for before failed
statusAllSwapsPendingFirst(present, swaps) ==
  IF ~present \/ Len(swaps) = 0 THEN Null
  ELSE LET statusCodes == [i \in DOMAIN swaps |-> getSwapStatus(swaps[i]).code] IN
       IF "pending" \in Range(statusCodes) THEN "pending"
       ELSE IF "failed" \in Range(statusCodes) THEN "failed"
       ELSE IF \A i \in DOMAIN statusCodes : statusCodes[i] = "complete" THEN "complete"
       ELSE statusCodes[1]

\* statusAllSwaps(swaps); present is false for a missing list
statusAllSwaps(present, swaps) ==
  IF ~present \/ Len(swaps) = 0 THEN Null
  ELSE LET statusCodes == [i \in DOMAIN swaps |-> getSwapStatus(swaps[i]).code] IN
       IF "failed" \in Range(statusCodes) THEN "failed"
       ELSE IF "pending" \in Range(statusCodes) THEN "pending"
       ELSE IF \A i \in DOMAIN statusCodes : statusCodes[i] = "complete" THEN "complete"
       ELSE statusCodes[1]

\* the swaps given to getSwapStatus: an error that is undefined, empty, a
\* text with or without 'insufficient funds' in it, or an object; an order
\* that is absent or has an error and a status; a rate; a transaction that is
\* absent or has its flags
StatusSwaps ==
  LET ErrorMixedCase ==
        <<"T", "x", ":", " ", "I", "n", "s", "u", "f", "f", "i", "c", "i", "e", "n",
          "t", " ", "F", "U", "N", "D", "S", " ", "f", "o", "r", " ", "g", "a", "s">>
      ErrorNearMiss ==
        <<"i", "n", "s", "u", "f", "f", "i", "c", "i", "e", "n", "t", " ",
          "f", "u", "n", "d">>
      TxStepErrors == {JsUndefined, Literal("rejected by device")}
  IN [error : {JsUndefined, JsString(<<>>), JsString(ErrorMixedCase),
               JsString(ErrorNearMiss), JsObject},
      errorType : {JsUndefined, Literal("pollTransactionReceipt"),
                   Literal("sendTransaction"), Literal("createOrder")},
      order : {[present |-> FALSE, error |-> JsUndefined, status |-> ""]}
              \cup [present : {TRUE},
                    error : {JsUndefined, Literal("declined"), JsObject},
                    status : {"open", "failed", "cancelled", "complete"}],
      rate : {Undef, 2},
      tx : {[present |-> FALSE, receipt |-> FALSE, sendingError |-> JsUndefined,
             sending |-> FALSE, sent |-> FALSE, signingError |-> JsUndefined,
             signing |-> FALSE, signed |-> FALSE, signingSupported |-> FALSE]}
           \cup [present : {TRUE}, receipt : BOOLEAN, sendingError : TxStepErrors,
                 sending : BOOLEAN, sent : BOOLEAN, signingError : TxStepErrors,
                 signing : BOOLEAN, signed : BOOLEAN, signingSupported : BOOLEAN]]

\* one swap of each status code, for the lists given to statusAllSwaps
ListedSwaps ==
  {sw \in StatusSwaps :
     /\ sw.errorType = JsUndefined
     /\ sw.error \in {JsUndefined, JsObject}
     /\ sw.order.error = JsUndefined
     /\ sw.order.status \in {"", "open", "complete", "failed"}
     /\ sw.tx.present = sw.tx.receipt
     /\ sw.tx.sendingError = JsUndefined /\ sw.tx.signingError = JsUndefined
     /\ ~sw.tx.sending /\ ~sw.tx.sent /\ ~sw.tx.signing /\ ~sw.tx.signed
     /\ ~sw.tx.signingSupported
     /\ sw.rate = 2}

InitStatus ==
  /\ swap = <<>>
  /\ txs = <<>>
  /\ balances = BalanceOf(0, 0, 0)
  /\ txCount \in TxCounts
  /\ pc = "idle"
  /\ fan = <<>>
  /\ orderIdx = 0
  /\ grpNext = [k \in Kinds |-> 0]
  /\ previousTx = [k \in Kinds |-> NoTx]
  /\ dispatched = <<>>
  /\ result = Pending
  /\ called = {}
  /\ op = "none"
  /\ started = {}
  /\ inflight = {}
  /\ resolved = {}
  /\ pay = <<>>
  /\ rst = <<>>
  /\ sto = <<>>
  /\ ethTx = <<>>
  /\ \E present \in BOOLEAN :
       \E list \in IF present
                   THEN {<<sw>> : sw \in StatusSwaps}
                        \cup UNION {[1..n -> ListedSwaps] : n \in 0..MaxStatusSwaps}
                   ELSE {<<>>} :
         stat = [stage |-> "call", present |-> present, swaps |-> list,
                 statuses |-> <<>>, all |-> Null]

\* swaps.map(getSwapStatus)
GetSwapStatus ==
  /\ stat # <<>> /\ stat.stage = "call" /\ stat.present
  /\ stat' = [stat EXCEPT !.stage = "statuses",
                          !.statuses = [i \in DOMAIN stat.swaps |->
                                          getSwapStatus(stat.swaps[i])]]
  /\ UNCHANGED orchVars
  /\ UNCHANGED <<pay, rst, sto, ethTx>>

StatusAllSwaps ==
  /\ stat # <<>> /\ stat.stage = "call"
  /\ stat' = [stat EXCEPT !.stage = "all",
                          !.all = statusAllSwaps(stat.present, stat.swaps)]
  /\ UNCHANGED orchVars
  /\ UNCHANGED <<pay, rst, sto, ethTx>>

\* selectors/swap.js 14-58: the stored swap with its transaction looked up,
\* const tx = allTxs[txId] || {}, and the status derived from the result;
\* sw.tx.present tells whether allTxs holds a transaction under sw's txId
createSwapExtender(sw) ==
  LET tx == IF sw.tx.present THEN sw.tx
            ELSE [present |-> TRUE, receipt |-> FALSE, sendingError |-> JsUndefined,
                  sending |-> FALSE, sent |-> FALSE, signingError |-> JsUndefined,
                  signing |-> FALSE, signed |-> FALSE, signingSupported |-> FALSE]
      extended == [sw EXCEPT !.tx = tx]
  IN [swap |-> extended, status |-> getSwapStatus(extended),
      friendlyError |-> getSwapFriendlyError(extended)]

\* getAllSwaps(state): every stored swap extended
GetAllSwaps ==
  /\ stat # <<>> /\ stat.stage = "call" /\ stat.present
  /\ stat' = [stat EXCEPT !.stage = "selected",
                          !.statuses = [i \in DOMAIN stat.swaps |->
                                          createSwapExtender(stat.swaps[i]).status]]
  /\ UNCHANGED orchVars
  /\ UNCHANGED <<pay, rst, sto, ethTx>>

NextStatus == GetSwapStatus \/ StatusAllSwaps \/ GetAllSwaps

SpecStatus == InitStatus /\ [][NextStatus]_vars

\* =====================================================================
\* restoreSwundles, restoreLatestSwundlePolling (swundle.js 216-309)
\* =====================================================================
MaxRestoreSwaps == 2

UndefinedId == "undefined"     \* an id field that is not set

\* uuid(): the n-th identifier generated during one call
uuid(n) == <<"uuid-1", "uuid-2", "uuid-3", "uuid-4", "uuid-5", "uuid-6">>[n]

\* Date.now(); the creation dates of stored orders and swundles are earlier
Now == 50

\* toBigNumber of a serialized decimal number
RECURSIVE toBigNumber(_)
toBigNumber(ds) ==
  LET Digits == <<"0", "1", "2", "3", "4", "5", "6", "7", "8", "9">>
      DigitValue(c) == (CHOOSE k \in DOMAIN Digits : Digits[k] = c) - 1
  IN IF ds = <<>> THEN 0
     ELSE 10 * toBigNumber(SubSeq(ds, 1, Len(ds) - 1)) + DigitValue(ds[Len(ds)])

\* an order descriptor, with or without a creation date, and an absent one
RestoredOrder(created) == [present |-> TRUE, created |-> created]
NoRestoredOrder == [present |-> FALSE, created |-> Undef]

\* a transaction object, with or without an id, and an absent one
RestoredTx(id) == [present |-> TRUE, id |-> id]
NoRestoredTx == [present |-> FALSE, id |-> UndefinedId]

\* a stored swundle
StoredSwundle(id, createdDate, swaps, dismissed) ==
  [id |-> id, createdDate |-> createdDate, swaps |-> swaps, dismissed |-> dismissed]

NoSwundle == StoredSwundle(UndefinedId, Undef, <<>>, FALSE)

\* the entries of a V1 send-group's list: well formed, or with a missing
\* symbol, a unit of zero or a missing order
V1Entries ==
  [walletId : {"receive-wallet"}, symbol : {"REP"}, unit : {<<"5">>},
   fee : {<<"1">>}, order : {RestoredOrder(d) : d \in {Undef, 10, 20}},
   rate : {<<"2">>}]
  \cup
  {[walletId |-> "receive-wallet", symbol |-> "OMG", unit |-> <<"1", "2">>,
    fee |-> <<"1">>, order |-> RestoredOrder(10), rate |-> <<"2">>],
   [walletId |-> "receive-wallet", symbol |-> "", unit |-> <<"5">>, fee |-> <<"1">>,
    order |-> RestoredOrder(10), rate |-> <<"2">>],
   [walletId |-> "receive-wallet", symbol |-> "REP", unit |-> <<"0">>, fee |-> <<"1">>,
    order |-> RestoredOrder(10), rate |-> <<"2">>],
   [walletId |-> "receive-wallet", symbol |-> "REP", unit |-> <<"5">>, fee |-> <<"1">>,
    order |-> NoRestoredOrder, rate |-> <<"2">>]}

\* the j-th V1 send-group; hasList is false when the group has no list field
SendGroup(j, symbol, hasList, entries, offset) ==
  [walletId |-> <<"send-wallet-1", "send-wallet-2">>[j], symbol |-> symbol,
   hasList |-> hasList,
   list |-> [k \in DOMAIN entries |->
               [walletId |-> entries[k].walletId, symbol |-> entries[k].symbol,
                unit |-> entries[k].unit, fee |-> entries[k].fee,
                order |-> entries[k].order, rate |-> entries[k].rate,
                txHash |-> <<"hash-1", "hash-2", "hash-3", "hash-4">>[offset + k]]]]

\* a swap as restoreSwundles hands it on
RestoredSwap(id, sendWalletId, sendSymbol, sendUnits, receiveWalletId, receiveSymbol, fee, order, rate, txId, tx) ==
  [id |-> id, sendWalletId |-> sendWalletId, sendSymbol |-> sendSymbol,
   sendUnits |-> sendUnits, receiveWalletId |-> receiveWalletId,
   receiveSymbol |-> receiveSymbol, fee |-> fee, order |-> order, rate |-> rate,
   txId |-> txId, tx |-> tx]

\* the i-th swap record of a V2 payload; txRef says how the record refers to
\* its transaction: not at all, by txId, or by carrying it with or without id
V2Swap(i, txRef, created) ==
  LET txId == <<"tx-1", "tx-2", "tx-3", "tx-4">>[i] IN
  RestoredSwap(<<"swap-1", "swap-2", "swap-3", "swap-4">>[i], "send-wallet-1", "ETH",
               5, "receive-wallet", "REP", 1, RestoredOrder(created), 2,
               IF txRef = "txId" THEN txId ELSE UndefinedId,
               IF txRef = "embedded" THEN RestoredTx(txId)
               ELSE IF txRef = "embeddedNoId" THEN RestoredTx(UndefinedId)
               ELSE NoRestoredTx)

\* the swundle map of a V2 payload: none, empty, one swundle of all swaps, one
\* swundle of the first swap only, or one of the first swap and one of the rest
SwundleMap(cover, ids, date1, dismissed1, dismissed2) ==
  IF cover \in {"absent", "empty"} \/ ids = <<>> THEN <<>>
  ELSE IF cover = "all"
  THEN <<StoredSwundle("swundle-1", date1, ids, dismissed1)>>
  ELSE IF cover = "first" \/ Len(ids) = 1
  THEN <<StoredSwundle("swundle-1", date1, <<ids[1]>>, dismissed1)>>
  ELSE <<StoredSwundle("swundle-1", date1, <<ids[1]>>, dismissed1),
         StoredSwundle("swundle-2", 20, Tail(ids), dismissed2)>>

\* the swundles the store holds before the call
StoredBefore ==
  {<<>>}
  \cup {<<StoredSwundle("swundle-0", 40, <<"swap-0">>, dis)>> : dis \in BOOLEAN}

\* the serialized states handed to restoreSwundles
NullPayload ==
  [type |-> "null", swapField |-> "undefined", swap |-> <<>>, hasTx |-> FALSE,
   tx |-> <<>>, hasSwundle |-> FALSE, swundle |-> <<>>, groups |-> <<>>]

V2Payloads ==
  LET V2SwapKinds ==
        {<<"txId", d>> : d \in {Undef, 10, 20}}
        \cup {<<r, 10>> : r \in {"none", "embedded", "embeddedNoId"}}
  IN UNION {
    {[NullPayload EXCEPT
        !.type = "object",
        !.swapField = IF asArray /\ cover = "absent" THEN "array" ELSE "object",
        !.swap = [i \in 1..n |-> V2Swap(i, kinds[i][1], kinds[i][2])],
        !.hasTx = \E i \in 1..n : kinds[i][1] = "txId",
        !.tx = SelectSeq([i \in 1..n |-> V2Swap(i, "embedded", 10).tx],
                         LAMBDA t : \E i \in 1..n :
                                      /\ kinds[i][1] = "txId"
                                      /\ t = V2Swap(i, "embedded", 10).tx),
        !.hasSwundle = cover # "absent",
        !.swundle = SwundleMap(cover, [i \in 1..n |-> V2Swap(i, "none", 10).id],
                               date1, dismissed1, dismissed2)] :
       kinds \in [1..n -> V2SwapKinds],
       cover \in {"absent", "empty", "all", "first", "split"},
       asArray \in BOOLEAN,
       date1 \in {10, 30}, dismissed1 \in BOOLEAN, dismissed2 \in BOOLEAN} :
    n \in 0..MaxRestoreSwaps}

V1Payloads ==
  UNION {
    {[NullPayload EXCEPT
        !.type = "array",
        !.groups =
          IF g = 0 THEN <<>>
          ELSE IF g = 1
          THEN <<SendGroup(1, syms[1], hasList \/ n > 0, entries, 0)>>
          ELSE <<SendGroup(1, syms[1], hasList \/ k > 0, SubSeq(entries, 1, k), 0),
                 SendGroup(2, syms[2], TRUE, SubSeq(entries, k + 1, n), k)>>] :
       entries \in [1..n -> V1Entries], g \in IF n = 0 THEN 0..2 ELSE 1..2,
       k \in 0..n,
       syms \in {<<"ETH", "BTC">>, <<"ETH", "ETH">>, <<"", "BTC">>, <<"ETH", "">>},
       hasList \in BOOLEAN} :
    n \in 0..MaxRestoreSwaps}

\* null, an object without swap field or with swap null, V2 states, V1 lists
RestorePayloads ==
  {NullPayload}
  \cup {[NullPayload EXCEPT !.type = "object", !.swapField = f] :
          f \in {"undefined", "null"}}
  \cup V2Payloads \cup V1Payloads

validateSwundleV2(state) ==
  /\ state.type # "null"
  /\ state.type \in {"object", "array"}
  /\ state.swapField # "null"
  /\ state.swapField \in {"array", "object"}

\* swundle.every from group j on, sendSymbols being the symbols seen so far:
\* "true", "false", or "throw" when a group without a list is reached
RECURSIVE validateSends(_, _, _)
\* for comparison: the receive symbols seen in a list are kept, and an entry
\* that repeats one of them fails the validation
validateSendsDistinctReceives(groups, j, sendSymbols) ==
  IF j > Len(groups) THEN "true"
  ELSE IF groups[j].symbol = "" THEN "false"
  ELSE IF groups[j].symbol \in sendSymbols THEN "false"
  ELSE IF ~groups[j].hasList THEN "throw"
  ELSE IF \E k \in DOMAIN groups[j].list :
            \/ groups[j].list[k].symbol = ""
            \/ \E i \in 1..(k - 1) : groups[j].list[i].symbol = groups[j].list[k].symbol
            \/ toBigNumber(groups[j].list[k].unit) <= 0
            \/ ~groups[j].list[k].order.present
  THEN "false"
  ELSE validateSends(groups, j + 1, sendSymbols \cup {groups[j].symbol})

validateSends(groups, j, sendSymbols) ==
  LET validReceive(receive) ==
        LET receiveSymbols == {} IN
          /\ receive.symbol # ""
          /\ receive.symbol \notin receiveSymbols
          /\ ~(toBigNumber(receive.unit) <= 0)
          /\ receive.order.present
  IN IF j > Len(groups) THEN "true"
     ELSE IF groups[j].symbol = "" THEN "false"
     ELSE IF groups[j].symbol \in sendSymbols THEN "false"
     ELSE IF ~groups[j].hasList THEN "throw"
     ELSE IF \E k \in DOMAIN groups[j].list : ~validReceive(groups[j].list[k])
     THEN "false"
     ELSE validateSends(groups, j + 1, sendSymbols \cup {groups[j].symbol})

validateSwundleV1(state) ==
  IF state.type = "null" THEN "false"
  ELSE IF state.type # "array" THEN "false"
  ELSE validateSends(state.groups, 1, {})

\* lines 247-263: the swaps of a V1 list, one for each entry of each group
RECURSIVE V1SwapList(_)
V1SwapList(groups) ==
  IF groups = <<>> THEN <<>>
  ELSE LET send == groups[Len(groups)] IN
       V1SwapList(SubSeq(groups, 1, Len(groups) - 1)) \o
       [k \in DOMAIN send.list |->
          LET receive == send.list[k] IN
          RestoredSwap(UndefinedId, send.walletId, send.symbol,
                       toBigNumber(receive.unit), receive.walletId, receive.symbol,
                       toBigNumber(receive.fee), receive.order,
                       toBigNumber(receive.rate), UndefinedId,
                       RestoredTx(receive.txHash))]

\* lines 232-240: an embedded transaction without an id is given a fresh one
LacksTxId(sw) == sw.tx.present /\ sw.tx.id = UndefinedId
FreshBefore(swaps, i) == Cardinality({j \in 1..i : LacksTxId(swaps[j])})

\* for comparison: every embedded transaction is given a fresh id
V2SwapListAllFresh(swaps) ==
  [i \in DOMAIN swaps |->
     IF swaps[i].tx.present
     THEN [swaps[i] EXCEPT !.tx.id = uuid(i), !.txId = uuid(i)]
     ELSE swaps[i]]

V2SwapList(swaps) ==
  [i \in DOMAIN swaps |->
     IF LacksTxId(swaps[i])
     THEN [swaps[i] EXCEPT !.tx.id = uuid(FreshBefore(swaps, i)),
                           !.txId = uuid(FreshBefore(swaps, i))]
     ELSE swaps[i]]

\* the payload creator of swundleAdded (typeof swap === 'string' ? swap : swap.id)
swundleAddedPayload(swundle) ==
  [swundle EXCEPT !.swaps = [i \in DOMAIN swundle.swaps |-> swundle.swaps[i].id]]

\* getLatestSwundle: the most recently created swundles of the store
LatestSwundles(swundles) ==
  IF swundles = <<>> THEN {NoSwundle}
  ELSE {swundles[i] : i \in {j \in DOMAIN swundles :
                                \A k \in DOMAIN swundles :
                                  swundles[k].createdDate <= swundles[j].createdDate}}

\* for comparison: a dismissed swundle is polled as well
pollLatestAlways(latestSwundle) ==
  IF latestSwundle = NoSwundle THEN <<>> ELSE latestSwundle.swaps

\* the swaps restoreLatestSwundlePolling dispatches restoreSwapPolling for
restoreLatestSwundlePolling(latestSwundle) ==
  IF latestSwundle = NoSwundle \/ latestSwundle.dismissed THEN <<>>
  ELSE latestSwundle.swaps

\* restoreSwundles up to its last line: what it dispatches, and the swundles
\* of the store afterwards (the swundle reducer replaces them on SET_ALL and
\* appends one on ADDED)
restoreSwundles(state, swundles) ==
  LET isV2 == validateSwundleV2(state)
      v1 == IF isV2 THEN "false" ELSE validateSwundleV1(state)
      hasSwapList == isV2 \/ v1 = "true"
      swapList == IF isV2 THEN V2SwapList(state.swap)
                  ELSE IF v1 = "true" THEN V1SwapList(state.groups)
                  ELSE <<>>
      txsRestored == IF isV2 /\ state.hasTx THEN <<state.tx>> ELSE <<>>
      withTx == SelectSeq(swapList, LAMBDA sw : sw.tx.present)
      txRestored == IF isV2 THEN [i \in DOMAIN withTx |-> withTx[i].tx] ELSE <<>>
      hasSwundle == isV2 /\ state.hasSwundle
      synthetic == hasSwapList /\ ~hasSwundle
      createdDate ==
        IF swapList # <<>> /\ swapList[1].order.present
           /\ swapList[1].order.created # Undef /\ swapList[1].order.created # 0
        THEN swapList[1].order.created
        ELSE Now
      added == swundleAddedPayload(
                 [id |-> uuid(FreshBefore(state.swap, Len(state.swap)) + 1),
                  createdDate |-> createdDate,
                  swaps |-> swapList])
      afterSetAll == IF hasSwundle THEN state.swundle ELSE swundles
  IN [threw |-> v1 = "throw",
      log |-> (IF txsRestored # <<>> THEN <<"txsRestored">> ELSE <<>>)
              \o [i \in DOMAIN txRestored |-> "txRestored"]
              \o (IF hasSwapList THEN <<"swapsRestored">> ELSE <<>>)
              \o (IF hasSwundle THEN <<"swundlesRestored">> ELSE <<>>)
              \o (IF synthetic THEN <<"swundleAdded">> ELSE <<>>),
      txsRestored |-> txsRestored,
      txRestored |-> txRestored,
      swapsRestored |-> IF hasSwapList THEN <<swapList>> ELSE <<>>,
      swundlesRestored |-> IF hasSwundle THEN <<state.swundle>> ELSE <<>>,
      swundleAdded |-> IF synthetic THEN <<added>> ELSE <<>>,
      swundles |-> IF synthetic
                   THEN afterSetAll \o <<StoredSwundle(added.id, added.createdDate,
                                                       added.swaps, FALSE)>>
                   ELSE afterSetAll]

InitRestore ==
  /\ swap = <<>>
  /\ txs = <<>>
  /\ balances = BalanceOf(0, 0, 0)
  /\ txCount \in TxCounts
  /\ pc = "idle"
  /\ fan = <<>>
  /\ orderIdx = 0
  /\ grpNext = [k \in Kinds |-> 0]
  /\ previousTx = [k \in Kinds |-> NoTx]
  /\ dispatched = <<>>
  /\ result = Pending
  /\ called = {}
  /\ op = "none"
  /\ started = {}
  /\ inflight = {}
  /\ resolved = {}
  /\ pay = <<>>
  /\ stat = <<>>
  /\ sto = <<>>
  /\ ethTx = <<>>
  /\ \E state \in RestorePayloads, before \in StoredBefore :
       rst = [stage |-> "call", state |-> state, before |-> before,
              out |-> [threw |-> FALSE, log |-> <<>>, txsRestored |-> <<>>,
                       txRestored |-> <<>>, swapsRestored |-> <<>>,
                       swundlesRestored |-> <<>>, swundleAdded |-> <<>>,
                       swundles |-> before],
              latest |-> NoSwundle, polled |-> <<>>]

\* dispatch(restoreSwundles(state)); a throw of the validation leaves the
\* thunk before anything is dispatched
RestoreSwundles ==
  /\ rst # <<>> /\ rst.stage = "call"
  /\ LET out == restoreSwundles(rst.state, rst.before) IN
       IF out.threw
       THEN rst' = [rst EXCEPT !.stage = "threw", !.out.threw = TRUE]
       ELSE \E latestSwundle \in LatestSwundles(out.swundles) :
              rst' = [rst EXCEPT !.stage = "restored", !.out = out,
                                 !.latest = latestSwundle,
                                 !.polled = restoreLatestSwundlePolling(latestSwundle)]
  /\ UNCHANGED orchVars
  /\ UNCHANGED <<pay, stat, sto, ethTx>>

\* dispatch(restoreLatestSwundlePolling()) on its own
RestoreLatestSwundlePolling ==
  /\ rst # <<>> /\ rst.stage = "call"
  /\ \E latestSwundle \in LatestSwundles(rst.before) :
       rst' = [rst EXCEPT !.stage = "polled", !.latest = latestSwundle,
                          !.polled = restoreLatestSwundlePolling(latestSwundle)]
  /\ UNCHANGED orchVars
  /\ UNCHANGED <<pay, stat, sto, ethTx>>

NextRestore == RestoreSwundles \/ RestoreLatestSwundlePolling

SpecRestore == InitRestore /\ [][NextRestore]_vars

\* =====================================================================
\* createSwundle, removeSwundle, removeCurrentSwundle, dismissLatestSwundle
\* on the store (swundle.js 50-79, 169-185)
\* =====================================================================
MaxStoreSwaps == 2

\* a dispatched action: its type, the id it names and, for ADDED, the swap list
StoreAction(type, id, swaps) == [type |-> type, id |-> id, swaps |-> swaps]

\* the swundles, swaps and polling intervals before a call: up to two
\* swundles of up to MaxStoreSwaps swaps each, and possibly a swap of no
\* swundle; window.faast.intervals holds, under each of its keys, the swaps
\* polled under that key
StoreStates ==
  LET SwapsOf(j, m) == [i \in 1..m |-> <<<<"swap-1a", "swap-1b", "swap-1c">>,
                                          <<"swap-2a", "swap-2b", "swap-2c">>>>[j][i]]
      One(j, m, dis) == StoredSwundle(<<"swundle-1", "swundle-2">>[j], 10 * j,
                                      SwapsOf(j, m), dis)
      Stores ==
        {<<>>}
        \cup {<<One(1, m, dis)>> : m \in 0..MaxStoreSwaps, dis \in BOOLEAN}
        \cup {<<One(1, m[1], dis[1]), One(2, m[2], dis[2])>> :
                m \in [1..2 -> 0..MaxStoreSwaps], dis \in [1..2 -> BOOLEAN]}
      AllSwaps(swundles) == FlatMap([j \in DOMAIN swundles |-> swundles[j].swaps],
                                    [j \in DOMAIN swundles |-> j])
  IN UNION {
       {[swundles |-> swundles,
         swaps |-> Range(AllSwaps(swundles))
                     \cup (IF orphan THEN {"swap-0"} ELSE {}),
         intervals |-> [orderStatus |->
                          (IF orphan THEN <<"swap-0">> ELSE <<>>) \o
                          (IF polled = "all" THEN AllSwaps(swundles)
                           ELSE IF polled = "first" /\ swundles # <<>>
                           THEN swundles[1].swaps
                           ELSE IF polled = "last" /\ swundles # <<>>
                           THEN swundles[Len(swundles)].swaps
                           ELSE <<>>),
                        txReceipt |->
                          IF receipts THEN AllSwaps(swundles) ELSE <<>>]] :
          polled \in {"none", "all", "first", "last"}, receipts \in BOOLEAN,
          orphan \in BOOLEAN} :
       swundles \in Stores}

\* the timers that run: one for each entry of window.faast.intervals
Timers(intervals) ==
  {<<"orderStatus", intervals.orderStatus[i]>> : i \in DOMAIN intervals.orderStatus}
  \cup {<<"txReceipt", intervals.txReceipt[i]>> : i \in DOMAIN intervals.txReceipt}

\* getSwundle(getState(), id)
getSwundle(swundles, id) ==
  IF \E j \in DOMAIN swundles : swundles[j].id = id
  THEN swundles[CHOOSE j \in DOMAIN swundles : swundles[j].id = id]
  ELSE NoSwundle

\* getCurrentSwundle(getState()): one of the stored swundles, or none
CurrentSwundles(swundles) == Range(swundles) \cup {NoSwundle}

\* for comparison: the swundle is removed and its swaps are left behind
removeSwundleOnly(st, id) ==
  LET swundle == getSwundle(st.swundles, id) IN
  IF swundle = NoSwundle THEN st
  ELSE [st EXCEPT !.swundles = SelectSeq(@, LAMBDA sw : sw.id # id),
                  !.log = @ \o <<StoreAction("REMOVED", id, <<>>)>>]

\* removeSwundle once id is known: REMOVED, then removeSwap for every swap
removeSwundle(st, id) ==
  LET swundle == getSwundle(st.swundles, id) IN
  IF swundle = NoSwundle THEN st
  ELSE [st EXCEPT !.swundles = SelectSeq(@, LAMBDA sw : sw.id # id),
                  !.swaps = @ \ Range(swundle.swaps),
                  !.log = @ \o <<StoreAction("REMOVED", id, <<>>)>>
                            \o [i \in DOMAIN swundle.swaps |->
                                  StoreAction("removeSwap", swundle.swaps[i], <<>>)]]

\* for comparison: only the intervals under the first key are cleared
clearFirstKeyOnly(active, intervals) ==
  active \ {<<"orderStatus", intervals.orderStatus[i]>> :
              i \in DOMAIN intervals.orderStatus}

\* the timers that still run after clearAllIntervals
clearAllIntervals(active, intervals) == active \ Timers(intervals)

InitStore ==
  /\ swap = <<>>
  /\ txs = <<>>
  /\ balances = BalanceOf(0, 0, 0)
  /\ txCount \in TxCounts
  /\ pc = "idle"
  /\ fan = <<>>
  /\ orderIdx = 0
  /\ grpNext = [k \in Kinds |-> 0]
  /\ previousTx = [k \in Kinds |-> NoTx]
  /\ dispatched = <<>>
  /\ result = Pending
  /\ called = {}
  /\ op = "none"
  /\ started = {}
  /\ inflight = {}
  /\ resolved = {}
  /\ pay = <<>>
  /\ stat = <<>>
  /\ rst = <<>>
  /\ ethTx = <<>>
  /\ \E before \in StoreStates :
       sto = [stage |-> "idle", op |-> "none", arg |-> UndefinedId,
              before |-> before, swundles |-> before.swundles,
              swaps |-> before.swaps, intervals |-> before.intervals,
              active |-> Timers(before.intervals), log |-> <<>>,
              id |-> UndefinedId, newSwaps |-> 0, pending |-> {},
              added |-> <<>>, order |-> <<>>, result |-> "none"]

\* dispatch(removeSwundle(swundleOrId)) with an id or with a swundle object
RemoveSwundle ==
  /\ sto # <<>> /\ sto.stage = "idle"
  /\ \E asString \in BOOLEAN, name \in {"swundle-1", "swundle-2", "swundle-9"} :
       LET swundleOrId == IF asString THEN name
                          ELSE StoredSwundle(name, 10, <<>>, FALSE)
           id == IF ~asString THEN swundleOrId.id ELSE swundleOrId
       IN sto' = [removeSwundle(sto, id) EXCEPT
                    !.stage = "removed", !.op = "removeSwundle", !.arg = id]
  /\ UNCHANGED orchVars
  /\ UNCHANGED <<pay, stat, rst, ethTx>>

\* dispatch(removeCurrentSwundle())
RemoveCurrentSwundle ==
  /\ sto # <<>> /\ sto.stage = "idle"
  /\ \E current \in CurrentSwundles(sto.swundles) :
       IF current # NoSwundle
       THEN sto' = [removeSwundle(sto, current.id) EXCEPT
                      !.stage = "removed", !.op = "removeCurrentSwundle",
                      !.arg = current.id]
       ELSE sto' = [sto EXCEPT !.stage = "removed",
                               !.op = "removeCurrentSwundle"]
  /\ UNCHANGED orchVars
  /\ UNCHANGED <<pay, stat, rst, ethTx>>

\* dispatch(dismissLatestSwundle())
DismissLatestSwundle ==
  /\ sto # <<>> /\ sto.stage = "idle"
  /\ \E latest \in LatestSwundles(sto.swundles) :
       IF latest # NoSwundle
       THEN sto' = [sto EXCEPT
                      !.stage = "dismissed", !.op = "dismissLatestSwundle",
                      !.arg = latest.id,
                      !.active = clearAllIntervals(@, sto.intervals),
                      !.log = @ \o <<StoreAction("DISMISSED", latest.id, <<>>)>>,
                      !.swundles = [j \in DOMAIN @ |->
                                      IF @[j].id = latest.id
                                      THEN [@[j] EXCEPT !.dismissed = TRUE]
                                      ELSE @[j]]]
       ELSE sto' = [sto EXCEPT !.stage = "dismissed",
                               !.op = "dismissLatestSwundle"]
  /\ UNCHANGED orchVars
  /\ UNCHANGED <<pay, stat, rst, ethTx>>

\* for comparison: the swaps in the order in which addSwap resolved
PromiseRace(added, order) == [k \in DOMAIN order |-> added[order[k]]]

\* Promise.all: the results in the order of the input array
PromiseAll(added, order) == added

\* createSwundle(newSwaps): the id is drawn and addSwap is dispatched for
\* every new swap, in input order
CreateSwundleCall ==
  /\ sto # <<>> /\ sto.stage = "idle"
  /\ \E n \in 0..MaxStoreSwaps :
       sto' = [sto EXCEPT
                 !.stage = "adding", !.op = "createSwundle", !.id = uuid(1),
                 !.newSwaps = n, !.pending = 1..n,
                 !.added = [i \in 1..n |-> UndefinedId],
                 !.log = @ \o [i \in 1..n |-> StoreAction("addSwap", UndefinedId, <<i>>)]]
  /\ UNCHANGED orchVars
  /\ UNCHANGED <<pay, stat, rst, ethTx>>

\* one addSwap resolves with the stored swap, whose id the store assigned
AddSwapResolves ==
  /\ sto # <<>> /\ sto.stage \in {"adding", "caught"}
  /\ \E i \in sto.pending :
       LET id == uuid(2 + Len(sto.order)) IN
       sto' = [sto EXCEPT !.pending = @ \ {i}, !.added[i] = id,
                          !.order = Append(@, i), !.swaps = @ \cup {id}]
  /\ UNCHANGED orchVars
  /\ UNCHANGED <<pay, stat, rst, ethTx>>

\* one addSwap rejects: Promise.all rejects and .catch logs the error
AddSwapRejects ==
  /\ sto # <<>> /\ sto.stage = "adding"
  /\ \E i \in sto.pending :
       sto' = [sto EXCEPT !.pending = @ \ {i}, !.stage = "caught",
                          !.result = "resolved"]
  /\ UNCHANGED orchVars
  /\ UNCHANGED <<pay, stat, rst, ethTx>>

\* first .then: swundleAdded with the ids of the swaps, getSwundle
CreateSwundleAdded ==
  /\ sto # <<>> /\ sto.stage = "adding" /\ sto.pending = {}
  /\ LET swaps == PromiseAll(sto.added, sto.order) IN
     sto' = [sto EXCEPT
               !.stage = "added",
               !.log = Append(@, StoreAction("ADDED", sto.id, swaps)),
               !.swundles = Append(@, StoredSwundle(sto.id, Now, swaps, FALSE))]
  /\ UNCHANGED orchVars
  /\ UNCHANGED <<pay, stat, rst, ethTx>>

\* second .then: dispatch(initSwundle(swundle)), which starts with INIT_STARTED
CreateSwundleInit ==
  /\ sto # <<>> /\ sto.stage = "added"
  /\ sto' = [sto EXCEPT
               !.stage = "init",
               !.log = Append(@, StoreAction("INIT_STARTED",
                                             getSwundle(sto.swundles, sto.id).id, <<>>))]
  /\ UNCHANGED orchVars
  /\ UNCHANGED <<pay, stat, rst, ethTx>>

\* initSwundle settles, with INIT_SUCCESS or INIT_FAILED, and never rejects
CreateSwundleSettles ==
  /\ sto # <<>> /\ sto.stage = "init"
  /\ \E type \in {"INIT_SUCCESS", "INIT_FAILED"} :
       sto' = [sto EXCEPT !.stage = "done", !.result = "resolved",
                          !.log = Append(@, StoreAction(type, sto.id, <<>>))]
  /\ UNCHANGED orchVars
  /\ UNCHANGED <<pay, stat, rst, ethTx>>

NextStore ==
  \/ RemoveSwundle
  \/ RemoveCurrentSwundle
  \/ DismissLatestSwundle
  \/ CreateSwundleCall
  \/ AddSwapResolves
  \/ AddSwapRejects
  \/ CreateSwundleAdded
  \/ CreateSwundleInit
  \/ CreateSwundleSettles

SpecStore == InitStore /\ [][NextStore]_vars

\* =====================================================================
\* EthereumWallet._createTransaction called on its own (Bitcore.ts 369-424)
\* =====================================================================
MaxNonce == 3

\* the call's options: nonce (a number or undefined) and previousTx, which
\* was sent from the wallet's address, from the same address in lower case
\* or from another address; the network reports txCount for the address
InitNonce ==
  /\ swap = <<>>
  /\ txs \in {<<>>} \cup
             {<<[walletId |-> "eth1", assetSymbol |-> "ETH", amount |-> 1,
                 feeAmount |-> GasFee, feeSymbol |-> "ETH",
                 outputs |-> <<[address |-> "0xdeposit", amount |-> 1]>>,
                 nonce |-> toHex(n), from |-> from]>> :
                n \in 0..MaxNonce, from \in {"0xAb", "0xab", "0xCd"}}
  /\ balances = BalanceOf(0, 0, 0)
  /\ txCount \in 0..MaxNonce
  /\ pc = "idle"
  /\ fan = <<>>
  /\ orderIdx = 0
  /\ grpNext = [k \in Kinds |-> 0]
  /\ previousTx = [k \in Kinds |-> NoTx]
  /\ dispatched = <<>>
  /\ result = Pending
  /\ called = {}
  /\ op = "none"
  /\ started = {}
  /\ inflight = {}
  /\ resolved = {}
  /\ pay = <<>>
  /\ stat = <<>>
  /\ rst = <<>>
  /\ sto = <<>>
  /\ \E optNonce \in {Undef} \cup 0..MaxNonce :
       ethTx = [stage |-> "call", nonce |-> optNonce,
                previousTx |-> IF txs = <<>> THEN NoTx ELSE 1, tx |-> EmptyTx]

\* wallet.createTransaction(address, amount, asset, {nonce, previousTx})
CreateTransaction ==
  /\ ethTx # <<>> /\ ethTx.stage = "call"
  /\ ethTx' = [ethTx EXCEPT
                 !.stage = "built",
                 !.tx = createTransaction("eth1", "0xdeposit", 1, "ETH",
                                          ethTx.nonce, ethTx.previousTx)]
  /\ UNCHANGED orchVars
  /\ UNCHANGED <<pay, stat, rst, sto>>

NextNonce == CreateTransaction

SpecNonce == InitNonce /\ [][NextNonce]_vars

\* =====================================================================
\* Claims
\* =====================================================================
Dispatched(a) == a \in Range(dispatched)
Called(name, i) == <<name, i>> \in called
InitOver == pc \in {"success", "failed"}
InitRunning == pc \in {"fanout", "orders", "txs"}

\* what swap i sends and the fee it pays in the asset it sends
FeeInSendAsset(i) ==
  IF isAggregateTransactionSupported(swap[i].sendWalletId, swap[i].sendSymbol)
  THEN MinerFee
  ELSE IF swap[i].sendSymbol = "ETH" THEN GasFee ELSE 0

CostAlone(i) == swap[i].sendUnits + FeeInSendAsset(i)

CostTogether(i, j) ==
  IF isAggregateTransactionSupported(swap[i].sendWalletId, swap[i].sendSymbol)
  THEN swap[i].sendUnits + swap[j].sendUnits + MinerFee
  ELSE CostAlone(i) + CostAlone(j)

SameSource(i, j) ==
  /\ swap[i].sendWalletId = swap[j].sendWalletId
  /\ swap[i].sendSymbol = swap[j].sendSymbol

BalanceFor(i) == balances[swap[i].sendWalletId][swap[i].sendSymbol]

JointlyExceeding ==
  \E i, j \in SwapIds :
    /\ i < j
    /\ SameSource(i, j)
    /\ swap[i].error = NoError
    /\ swap[j].error = NoError
    /\ CostAlone(i) <= BalanceFor(i)
    /\ CostAlone(j) <= BalanceFor(i)
    /\ CostTogether(i, j) > BalanceFor(i)

\* C1: a swundle with two error-free swaps that send the same asset from the
\* same wallet, each affordable alone but not together, never gets
\* INIT_SUCCESS and ends with INIT_FAILED.
C1_JointShortfallFailsInit ==
  JointlyExceeding =>
    /\ ~Dispatched(initSuccess)
    /\ InitOver => \E e \in {Reject} \cup {InsufficientMessage(k) : k \in AllKeys} :
                     Dispatched(initFailed(e))

\* C2: the balance check starts only after every swap's updateMarketInfo and
\* checkSufficientDeposit have resolved; createOrder is invoked only after the
\* check has passed; a transaction is built only after createOrder has
\* resolved for every swap.
C2_StagesOrdered ==
  /\ Called("checkSufficientBalances", 0) =>
       \A i \in SwapIds : fan[i] = "resolved" /\ Called("checkSufficientDeposit", i)
  /\ (\E i \in SwapIds : Called("createOrder", i)) =>
       Called("checkSufficientBalances.returned", 0)
  /\ (\E i \in SwapIds : Called("createSwapTx", i) \/ Called("createAggregateTx", i)) =>
       \A i \in SwapIds : Called("createOrder.resolved", i)

C2_Witness ==
  /\ Len(swap) >= 2
  /\ pc = "txs"
  /\ \E i \in SwapIds : Called("createSwapTx", i)
  /\ \E i \in SwapIds : Called("createAggregateTx", i)

\* the account-model swaps of the swundle whose transaction this run built
BuiltAccountSwaps ==
  SelectSeq([i \in SwapIds |-> i],
            LAMBDA i : /\ ~isAggregateTransactionSupported(swap[i].sendWalletId,
                                                           swap[i].sendSymbol)
                       /\ swap[i].error = NoError
                       /\ swap[i].txId # NoTx
                       /\ Called("createSwapTx", i))

NonceOf(i) == toNumber(SwapTx(swap[i]).nonce)

\* C3: the transactions one initSwundle builds for the account-model swaps
\* that send from one address, whatever asset each sends, carry strictly
\* consecutive nonces in swundle swap order.
C3_ConsecutiveNonces ==
  pc = "success" =>
    LET b == BuiltAccountSwaps IN
    \A j \in 1..(Len(b) - 1) :
      SwapTx(swap[b[j]]).from = SwapTx(swap[b[j + 1]]).from =>
        NonceOf(b[j + 1]) = NonceOf(b[j]) + 1

\* a running initSwundle has a next step: the balance check once the fan-out
\* has joined, or one of the other steps
InitCanStep ==
  \/ pc = "fanout" /\ FanoutJoined
  \/ ENABLED (\E i \in DOMAIN fan : UpdateMarketInfoResolve(i))
  \/ ENABLED (\E i \in DOMAIN fan : CheckSufficientDepositResolve(i))
  \/ ENABLED CreateOrder
  \/ ENABLED CreateSwundleTxs
  \/ ENABLED (\E k \in Kinds : BuildAggregateTx(k))
  \/ ENABLED (\E k \in Kinds : CreateSwapTx(k))
  \/ ENABLED InitSuccess

\* C4: the promise of initSwundle never rejects; INIT_STARTED is dispatched
\* first; a finished run has dispatched exactly one of INIT_SUCCESS and
\* INIT_FAILED (the latter with the error's message) and has resolved; an
\* unfinished run has dispatched neither and can always take a step.
C4_InitNeverRejects ==
  /\ result.state # "rejected"
  /\ (InitRunning \/ InitOver) => dispatched[1] = initStarted
  /\ InitRunning =>
       /\ dispatched = <<initStarted>>
       /\ result = Pending
       /\ InitCanStep
  /\ pc = "success" => dispatched = <<initStarted, initSuccess>> /\ result = Resolved
  /\ pc = "failed" =>
       /\ \E e \in {Reject} \cup {InsufficientMessage(k) : k \in AllKeys} :
            dispatched = <<initStarted, initFailed(e)>>
       /\ result = Resolved

C4_Witness ==
  /\ pc = "failed"
  /\ dispatched = <<initStarted, initFailed(Reject)>>
  /\ \E i \in SwapIds : Called("createAggregateTx", i)
  /\ result = Resolved

\* amount and fee the error-free swaps' transactions draw from wallet w in asset s
RECURSIVE DrawnUpTo(_, _, _)
DrawnUpTo(k, w, s) ==
  IF k = 0 THEN 0
  ELSE DrawnUpTo(k - 1, w, s) +
       (IF swap[k].error = NoError /\ swap[k].sendWalletId = w /\ swap[k].txId # NoTx
        THEN (IF swap[k].sendSymbol = s THEN SwapTx(swap[k]).amount ELSE 0)
             + (IF SwapTx(swap[k]).feeSymbol = s THEN SwapTx(swap[k]).feeAmount ELSE 0)
        ELSE 0)

Drawn(w, s) == DrawnUpTo(Len(swap), w, s)

ShortfallFailure(e) ==
  /\ Dispatched(initFailed(e))
  /\ e.msg = "Insufficient balance for transaction fees"

\* C5: when the balance check finds a shortfall, no createOrder, createSwapTx
\* or createAggregateTx is invoked in that run, and INIT_FAILED names the
\* asset and the wallet's label (its id when it has no label) of a wallet and
\* asset that are short; a check that finds none lets the run go on.
C5_ShortfallAbortsBeforeCommitment ==
  /\ \A k \in AllKeys :
       (Called("checkSufficientBalances", 0) /\ orderIdx = 0 /\ pc # "txs"
        /\ Drawn(k[1], k[2]) > balances[k[1]][k[2]])
         => \E e \in {InsufficientMessage(j) : j \in AllKeys} : ShortfallFailure(e)
  /\ \A e \in {InsufficientMessage(j) : j \in AllKeys} :
       ShortfallFailure(e) =>
         /\ pc = "failed"
         /\ \A i \in SwapIds : /\ ~Called("createOrder", i)
                               /\ ~Called("createSwapTx", i)
                               /\ ~Called("createAggregateTx", i)
         /\ \E k \in AllKeys :
              /\ e.symbol = k[2]
              /\ e.wallet = (IF WalletLabel(k[1]) = NoLabel THEN k[1] ELSE WalletLabel(k[1]))
              /\ Drawn(k[1], k[2]) > balances[k[1]][k[2]]

C5_Witness ==
  \E e \in {InsufficientMessage(j) : j \in AllKeys} :
    /\ ShortfallFailure(e)
    /\ e.wallet = "btc1"

AggregateKinds == {k \in Kinds : isAggregateTransactionSupported(k[1], k[2])}

\* the group of k has one transaction of this run, with one output per swap
\* of the group in swap order, attached to every swap of the group
OneTxForGroup(k) ==
  LET ids == GroupSwaps(k) IN
  /\ Called("createAggregateTx", ids[1])
  /\ \A j \in DOMAIN ids :
       /\ swap[ids[j]].txId = swap[ids[1]].txId
       /\ swap[ids[j]].txId # NoTx
       /\ swap[ids[j]].outputIndex = j - 1
  /\ LET tx == SwapTx(swap[ids[1]]) IN
       /\ Len(tx.outputs) = Len(ids)
       /\ \A j \in DOMAIN ids :
            /\ tx.outputs[j].address = swap[ids[j]].deposit
            /\ tx.outputs[j].address = DepositAddresses[ids[j]]
            /\ tx.outputs[j].amount = swap[ids[j]].sendUnits

GroupHasError(k) == \E i \in Range(GroupSwaps(k)) : swap[i].error # NoError

ExchangeErrors == {QuoteError, DepositError, OrderError}

BuiltInThisRun(i) ==
  /\ swap[i].txId # NoTx
  /\ \/ Called("createSwapTx", i)
     \/ \E j \in SwapIds : SameSource(i, j) /\ Called("createAggregateTx", j)

\* C7: when initSwundle succeeds on a swundle one of whose swaps has a quote
\* or order error, every swap without an error has its order placed and its
\* transaction built, also a swap of the errored swap's (wallet, asset) group.
C7_SiblingsStillBuilt ==
  (pc = "success" /\ \E i \in SwapIds : swap[i].error \in ExchangeErrors) =>
    \A j \in SwapIds :
      swap[j].error = NoError =>
        /\ Called("createOrder.resolved", j)
        /\ swap[j].deposit # NoDeposit
        /\ BuiltInThisRun(j)

\* C8: signSwundle and sendSwundle start the step of a swap only after the
\* steps of all swaps before it have resolved, so at most one swap is being
\* signed or sent at any time.
C8_OneSwapAtATime ==
  /\ Cardinality(inflight) <= 1
  /\ \A i \in started : \A j \in 1..(i - 1) : j \in started
  /\ \A i \in started : \A j \in 1..(i - 1) : j \in resolved
  /\ \A i \in inflight : i \in started /\ i \notin resolved

C8_Witness ==
  /\ op = "send"
  /\ 2 \in inflight
  /\ 1 \in resolved

FailedOf(o, e) == IF o = "signFailed" THEN signFailed(e) ELSE sendFailed(e)
StartedOf(o) == IF o \in {"sign", "signFailed", "signed"} THEN signStarted ELSE sendStarted
SuccessOf(o) == IF o = "signed" THEN signSuccess ELSE sendSuccess

\* C9: the STARTED action is dispatched before any swap is processed; after
\* the step of swap k rejects, FAILED with the error's message is the only
\* further action, no swap after k has been started, and the promise has
\* rejected with that error; after every step resolved, SUCCESS is the only
\* further action and the promise has resolved.
C9_FailureStopsAndRethrows ==
  /\ Running =>
       /\ dispatched = <<StartedOf(op)>>
       /\ result = Pending
  /\ started # {} => dispatched # <<>> /\ dispatched[1] = StartedOf(op)
  /\ op \in {"signFailed", "sendFailed"} =>
       /\ \E e \in StepErrors :
            /\ dispatched = <<StartedOf(op), FailedOf(op, e)>>
            /\ result = Rejected(e)
       /\ \E k \in SwapIds :
            /\ started = 1..k
            /\ resolved = 1..(k - 1)
       /\ inflight = {}
  /\ op \in {"signed", "sent"} =>
       /\ dispatched = <<StartedOf(op), SuccessOf(op)>>
       /\ result = Resolved
       /\ resolved = SwapIds

C9_Witness ==
  /\ op = "sendFailed"
  /\ Len(swap) = 2
  /\ started = {1}
  /\ \E e \in StepErrors : result = Rejected(e)

PayDone == pay # <<>> /\ pay.stage = "done"
PayOutputTotal == TotalAmount(pay.desiredOutputs)
PayUtxoTotal == TotalValue(pay.account.utxos)
PayFeeFor(k) ==
  estimateTxFee(pay.feeRate, k, Len(pay.desiredOutputs) + 1, pay.isSegwit)

\* a returned payment's inputs cover its outputs and its fee
PaymentCovered ==
  pay.result.thrown = NoThrow =>
    TotalValue(pay.result.inputUtxos) >=
      TotalAmount(pay.result.outputs) + pay.result.fee

\* some first k utxos of the selection order cover the outputs and the fee
\* of a transaction with k inputs
SomePrefixCovers ==
  LET sorted == sortUtxos(pay.account.utxos) IN
  \E k \in 1..Len(sorted) :
    TotalValue(SubSeq(sorted, 1, k)) >= PayOutputTotal + PayFeeFor(k)

\* C10 (as stated): buildPaymentTx returns a payment whose inputs total at
\* least its outputs' total plus its fee, or throws; and it throws the
\* not-enough-UTXOs error whenever the sum of all utxos is less than the
\* output total plus the fee for spending all of them and the output total
\* differs from that sum.
C10_Original_ThrowsWhenAllTooSmall ==
  PayDone =>
    /\ PaymentCovered
    /\ (/\ PayUtxoTotal < PayOutputTotal + PayFeeFor(Len(pay.account.utxos))
        /\ PayOutputTotal # PayUtxoTotal)
         => pay.result.thrown = NotEnoughUtxos

\* C10 (amended): buildPaymentTx returns a payment whose inputs total at
\* least its outputs' total plus its fee, or throws; and it throws the
\* not-enough-UTXOs error whenever no first k utxos of the selection order
\* total at least the output total plus the fee for spending k inputs and
\* the output total differs from the sum of all utxos.
C10_CoveredOrThrows ==
  PayDone =>
    /\ PaymentCovered
    /\ (~SomePrefixCovers /\ PayOutputTotal # PayUtxoTotal)
         => pay.result.thrown = NotEnoughUtxos
    /\ pay.result.thrown = NotEnoughUtxos => ~SomePrefixCovers

C10_Witness ==
  /\ PayDone
  /\ Len(pay.account.utxos) = 2
  /\ PayUtxoTotal > PayOutputTotal
  /\ pay.desiredOutputs # <<>>
  /\ pay.result.thrown = NotEnoughUtxos

PayNoChange ==
  /\ pay.result.change = 0
  /\ pay.result.changeAddress = NoAddress
  /\ pay.result.changePath = NoPath

\* the payment spends every utxo and pays the desired outputs, the first one
\* lowered by fee, without change
SendAllPayment(fee) ==
  /\ pay.result.thrown = NoThrow
  /\ Len(pay.result.inputUtxos) = Len(pay.account.utxos)
  /\ Range(pay.result.inputUtxos) = Range(pay.account.utxos)
  /\ Len(pay.result.outputs) = Len(pay.desiredOutputs)
  /\ pay.result.outputs[1].address = pay.desiredOutputs[1].address
  /\ pay.result.outputs[1].amount = pay.desiredOutputs[1].amount - fee
  /\ \A j \in 2..Len(pay.desiredOutputs) :
       pay.result.outputs[j] = pay.desiredOutputs[j]
  /\ pay.result.fee = fee
  /\ PayNoChange

SendAllOutcome ==
  LET fee == PayFeeFor(Len(pay.account.utxos)) IN
  IF pay.desiredOutputs[1].amount - fee <= pay.dustThreshold
  THEN pay.result.thrown = BelowDust
  ELSE SendAllPayment(fee)

\* C11 (as stated): when the desired outputs total exactly the sum of all
\* utxos, buildPaymentTx spends every utxo, lowers the first output by the
\* fee, leaves the other outputs unchanged and emits no change output; if the
\* first output minus the fee is at most dustThreshold it throws the
\* dust-threshold error instead.
C11_Original_SendAll ==
  (PayDone /\ PayOutputTotal = PayUtxoTotal) => SendAllOutcome

\* C11 (amended): the same, when the fee for spending all the utxos is
\* positive; with a fee of zero the payment is an ordinary one, which is not
\* checked against dustThreshold.
C11_SendAllWithFee ==
  (/\ PayDone
   /\ PayOutputTotal = PayUtxoTotal
   /\ PayFeeFor(Len(pay.account.utxos)) > 0) => SendAllOutcome

C11_Witness ==
  /\ PayDone
  /\ PayOutputTotal = PayUtxoTotal
  /\ Len(pay.account.utxos) = 2
  /\ Len(pay.desiredOutputs) = 2
  /\ pay.result.thrown = NoThrow
  /\ pay.result.fee > 0
  /\ pay.result.outputs[1].amount < pay.desiredOutputs[1].amount

\* what the selected inputs leave after the outputs and the estimated fee
PayBaseFee ==
  IF pay.result.inputUtxos = <<>> THEN 0
  ELSE PayFeeFor(Len(pay.result.inputUtxos))

PayLeftover ==
  TotalValue(pay.result.inputUtxos) - TotalAmount(pay.result.outputs) - PayBaseFee

\* C12: a returned payment has a change output only if the change is greater
\* than dustThreshold, and then it pays the change to
\* changeAddresses[changeIndex] with path [1, changeIndex]; otherwise the
\* leftover is added to the fee, the change is 0 and changeAddress and
\* changePath are null.
C12_ChangeAboveDustOnly ==
  (PayDone /\ pay.result.thrown = NoThrow) =>
    IF PayLeftover > pay.dustThreshold
    THEN /\ pay.result.change = PayLeftover
         /\ pay.result.fee = PayBaseFee
         /\ pay.result.changeAddress = ChangeAddresses[pay.account.changeIndex + 1]
         /\ pay.result.changePath = <<1, pay.account.changeIndex>>
    ELSE /\ pay.result.fee = PayBaseFee + PayLeftover
         /\ PayNoChange

C12_Witness ==
  /\ PayDone
  /\ pay.result.thrown = NoThrow
  /\ pay.dustThreshold = DefaultDustThreshold
  /\ PayLeftover > 0
  /\ PayLeftover <= pay.dustThreshold
  /\ pay.result.fee > PayBaseFee
  /\ PayNoChange

IsMature(u) == u.confirmations >= MatureConfirmations

\* u may be selected before v
SelectedBefore(u, v) ==
  \/ IsMature(u) /\ ~IsMature(v)
  \/ IsMature(u) /\ IsMature(v) /\ u.value <= v.value
  \/ ~IsMature(u) /\ ~IsMature(v) /\ u.confirmations >= v.confirmations

\* C13: the selected inputs are a prefix of the order [mature utxos ascending
\* by value, then the others descending by confirmations]; an immature utxo
\* is spent only when every mature one is spent; on a successful build
\* without the send-all adjustment the inputs are the shortest prefix that
\* covers the output total plus the fee for that number of inputs.
C13_ShortestPrefixMatureFirst ==
  (PayDone /\ pay.result.thrown = NoThrow) =>
    LET inputs == pay.result.inputUtxos
        unspent == Range(pay.account.utxos) \ Range(inputs)
    IN /\ Range(inputs) \subseteq Range(pay.account.utxos)
       /\ \A i, j \in DOMAIN inputs : i # j => inputs[i] # inputs[j]
       /\ \A i, j \in DOMAIN inputs : i < j => SelectedBefore(inputs[i], inputs[j])
       /\ \A u \in Range(inputs) : \A v \in unspent : SelectedBefore(u, v)
       /\ (\E u \in Range(inputs) : ~IsMature(u)) =>
            \A v \in unspent : ~IsMature(v)
       /\ pay.result.outputs = pay.desiredOutputs =>
            /\ TotalValue(inputs) >= PayOutputTotal + PayFeeFor(Len(inputs))
            /\ \A k \in 1..(Len(inputs) - 1) :
                 TotalValue(SubSeq(inputs, 1, k)) < PayOutputTotal + PayFeeFor(k)

C13_Witness ==
  /\ PayDone
  /\ pay.result.thrown = NoThrow
  /\ pay.result.outputs = pay.desiredOutputs
  /\ Len(pay.result.inputUtxos) = 2
  /\ IsMature(pay.result.inputUtxos[1])
  /\ ~IsMature(pay.result.inputUtxos[2])
  /\ pay.result.inputUtxos[1].value > pay.result.inputUtxos[2].value
  /\ pay.account.utxos[2] = pay.result.inputUtxos[1]
  /\ pay.account.utxos[1] = pay.result.inputUtxos[2]

\* ---------------------------------------------------------------------
\* C14: getSwapStatus returns the first matching condition in the order
\* swap.error (failed) > order absent (pending/creating_order) > order.error
\* (failed/order_error) > order.status failed (failed/order_failed) >
\* cancelled (failed/order_cancelled) > complete (complete/order_complete) >
\* rate absent (pending/fetching_rate) > tx absent (pending/creating_tx) >
\* transaction sub-states > processing; a swap with swap.error or
\* order.error is failed even when order.status is complete, and a second
\* call on the same swap returns the same code and detailsCode.
StatusIs(s, code, detailsCode) == s.code = code /\ s.detailsCode = detailsCode

TxSubStates ==
  {<<"failed", "send_tx_error">>, <<"pending", "sending">>,
   <<"pending", "pending_receipt">>, <<"failed", "sign_tx_error">>,
   <<"pending", "signing">>, <<"pending", "signed">>,
   <<"pending", "signing_unsupported">>, <<"pending", "unsigned">>}

FirstMatch(sw, s) ==
  LET c1 == Truthy(sw.error)
      c2 == ~sw.order.present
      c3 == Truthy(sw.order.error)
      c4 == sw.order.status = "failed"
      c5 == sw.order.status = "cancelled"
      c6 == sw.order.status = "complete"
      c7 == sw.rate = Undef
      c8 == ~sw.tx.present
      c9 == ~sw.tx.receipt
  IN /\ c1 => s.code = "failed" /\ s.detailsCode \in {"insufficient_funds", "error"}
     /\ ~c1 /\ c2 => StatusIs(s, "pending", "creating_order")
     /\ ~c1 /\ ~c2 /\ c3 => StatusIs(s, "failed", "order_error")
     /\ ~c1 /\ ~c2 /\ ~c3 /\ c4 => StatusIs(s, "failed", "order_failed")
     /\ ~c1 /\ ~c2 /\ ~c3 /\ c5 => StatusIs(s, "failed", "order_cancelled")
     /\ ~c1 /\ ~c2 /\ ~c3 /\ c6 => StatusIs(s, "complete", "order_complete")
     /\ ~c1 /\ ~c2 /\ ~c3 /\ ~c4 /\ ~c5 /\ ~c6 /\ c7
          => StatusIs(s, "pending", "fetching_rate")
     /\ ~c1 /\ ~c2 /\ ~c3 /\ ~c4 /\ ~c5 /\ ~c6 /\ ~c7 /\ c8
          => StatusIs(s, "pending", "creating_tx")
     /\ ~c1 /\ ~c2 /\ ~c3 /\ ~c4 /\ ~c5 /\ ~c6 /\ ~c7 /\ ~c8 /\ c9
          => <<s.code, s.detailsCode>> \in TxSubStates
     /\ ~c1 /\ ~c2 /\ ~c3 /\ ~c4 /\ ~c5 /\ ~c6 /\ ~c7 /\ ~c8 /\ ~c9
          => StatusIs(s, "pending", "processing")
     /\ (c1 \/ (sw.order.present /\ c3)) => s.code = "failed"

StatusesDone == stat # <<>> /\ stat.stage = "statuses"

C14_FirstMatchingCondition ==
  StatusesDone =>
    \A i \in DOMAIN stat.swaps :
      /\ FirstMatch(stat.swaps[i], stat.statuses[i])
      /\ StatusIs(getSwapStatus(stat.swaps[i]),
                  stat.statuses[i].code, stat.statuses[i].detailsCode)

\* a swap with an error of its own and a completed order was given a status
C14_Witness ==
  /\ StatusesDone
  /\ \E i \in DOMAIN stat.swaps :
       /\ Truthy(stat.swaps[i].error)
       /\ stat.swaps[i].order.present
       /\ stat.swaps[i].order.status = "complete"
       /\ stat.statuses[i].code = "failed"

\* ---------------------------------------------------------------------
\* C15: statusAllSwaps over a non-empty list returns 'failed' if any swap's
\* status code is failed, otherwise 'pending' if any is pending, otherwise
\* 'complete'; for an empty or missing list it returns null; it never
\* returns any other value.
AllDone == stat # <<>> /\ stat.stage = "all"

CodesOf(swaps) == {getSwapStatus(swaps[i]).code : i \in DOMAIN swaps}

C15_AggregateStatus ==
  AllDone =>
    /\ stat.all \in {"failed", "pending", "complete", Null}
    /\ stat.all = Null <=> (~stat.present \/ stat.swaps = <<>>)
    /\ stat.all = "failed" <=> "failed" \in CodesOf(stat.swaps)
    /\ stat.all = "pending" <=>
         ("failed" \notin CodesOf(stat.swaps) /\ "pending" \in CodesOf(stat.swaps))
    /\ stat.all = "complete" <=> CodesOf(stat.swaps) = {"complete"}

\* a list holding a pending and a failed swap was reported as failed
C15_Witness ==
  /\ AllDone
  /\ Len(stat.swaps) >= 2
  /\ {"failed", "pending"} \subseteq CodesOf(stat.swaps)
  /\ stat.all = "failed"

\* ---------------------------------------------------------------------
\* C16: restoreSwundles on a valid V1 payload restores exactly one swap per
\* entry of every group's list, with sendWalletId/sendSymbol taken from the
\* group and receive symbol, units, order and rate from the entry, and adds
\* exactly one swundle whose swap-id list identifies every one of those
\* restored swaps, each by a defined id.
RestoreDone == rst # <<>> /\ rst.stage = "restored"

\* a V1 list that passes the validation: every group has a symbol no earlier
\* group has and a list, every entry a symbol, a positive unit and an order
WellFormedV1(state) ==
  /\ state.type = "array"
  /\ \A j \in DOMAIN state.groups :
       /\ state.groups[j].symbol # ""
       /\ \A i \in 1..(j - 1) : state.groups[i].symbol # state.groups[j].symbol
       /\ state.groups[j].hasList
       /\ \A k \in DOMAIN state.groups[j].list :
            /\ state.groups[j].list[k].symbol # ""
            /\ state.groups[j].list[k].unit \in {<<"5">>, <<"1", "2">>}
            /\ state.groups[j].list[k].order.present

RECURSIVE EntriesBefore(_, _)
EntriesBefore(groups, j) ==
  IF j <= 1 THEN 0 ELSE EntriesBefore(groups, j - 1) + Len(groups[j - 1].list)

UnitsOf(unit) == IF unit = <<"5">> THEN 5 ELSE 12

OneSwapPerEntry(groups, restored) ==
  /\ Len(restored) = EntriesBefore(groups, Len(groups) + 1)
  /\ \A j \in DOMAIN groups : \A k \in DOMAIN groups[j].list :
       LET sw == restored[EntriesBefore(groups, j) + k]
           receive == groups[j].list[k]
       IN /\ sw.sendWalletId = groups[j].walletId
          /\ sw.sendSymbol = groups[j].symbol
          /\ sw.receiveSymbol = receive.symbol
          /\ sw.sendUnits = UnitsOf(receive.unit)
          /\ sw.order = receive.order
          /\ sw.rate = 2

IdentifiesAll(ids, restored) ==
  /\ Len(ids) = Len(restored)
  /\ \A i \in DOMAIN ids : ids[i] # UndefinedId /\ ids[i] = restored[i].id
  /\ \A i, j \in DOMAIN ids : i # j => ids[i] # ids[j]

C16_V1OneSwapPerEntryOneSwundle ==
  (RestoreDone /\ WellFormedV1(rst.state)) =>
    /\ Len(rst.out.swapsRestored) = 1
    /\ OneSwapPerEntry(rst.state.groups, rst.out.swapsRestored[1])
    /\ Len(rst.out.swundleAdded) = 1
    /\ IdentifiesAll(rst.out.swundleAdded[1].swaps, rst.out.swapsRestored[1])

\* ---------------------------------------------------------------------
\* C17: restoreSwundles on a V2 payload that has swap, tx and swundle maps
\* restores the transactions, swaps and swundles of the payload unchanged
\* (each swap keeps its tx reference, each swundle its id and ordered
\* swap-id list) and adds no synthetic swundle, so the restored
\* swap/swundle/tx linkage equals the serialized one.
\* The payloads meant are those of the map format: every transaction a swap
\* record refers to or carries has an id.
MapFormat(state) ==
  /\ state.type = "object"
  /\ state.swapField \in {"array", "object"}
  /\ state.hasTx
  /\ state.hasSwundle
  /\ \A i \in DOMAIN state.swap : ~LacksTxId(state.swap[i])

ValidPayload(state) ==
  \/ state.type = "object" /\ state.swapField \in {"array", "object"}
  \/ WellFormedV1(state)

Owned(sw, swundles) ==
  \E i \in DOMAIN swundles : \E k \in DOMAIN swundles[i].swaps :
    swundles[i].swaps[k] = sw.id

C18_EveryRestoredSwapOwned ==
  (RestoreDone /\ ValidPayload(rst.state)) =>
    /\ Len(rst.out.swapsRestored) = 1
    /\ \A i \in DOMAIN rst.out.swapsRestored[1] :
         Owned(rst.out.swapsRestored[1][i], rst.out.swundles)

\* ---------------------------------------------------------------------
\* C19: the createdDate of the synthetic swundle made by restoreSwundles is
\* the earliest order.created among the restored swaps that have one, and
\* the current time only when no restored swap has an order creation date.
CreatedDates(swaps) ==
  {swaps[i].order.created : i \in {j \in DOMAIN swaps :
                                     /\ swaps[j].order.present
                                     /\ swaps[j].order.created # Undef}}

Earliest(dates) == CHOOSE d \in dates : \A e \in dates : d <= e

C19_EarliestOrderDate ==
  (RestoreDone /\ rst.out.swundleAdded # <<>>) =>
    LET dates == CreatedDates(rst.out.swapsRestored[1]) IN
      rst.out.swundleAdded[1].createdDate =
        IF dates = {} THEN Now ELSE Earliest(dates)

\* ---------------------------------------------------------------------
\* C20: after restoreSwundles, polling is resumed (restoreSwapPolling) for
\* exactly the swaps of the most recently created swundle that is not
\* dismissed, and for no swap of any other swundle or of a dismissed swundle.
MostRecent(swundles) ==
  {sw \in Range(swundles) : \A other \in Range(swundles) :
                              other.createdDate <= sw.createdDate}

NotDismissed(swundles) == SelectSeq(swundles, LAMBDA sw : ~sw.dismissed)

\* as stated: the most recent of the swundles that are not dismissed is polled
C20_Original_LatestNotDismissedPolled ==
  RestoreDone =>
    IF NotDismissed(rst.out.swundles) = <<>> THEN rst.polled = <<>>
    ELSE \E sw \in MostRecent(NotDismissed(rst.out.swundles)) : rst.polled = sw.swaps

\* as amended: the most recently created swundle is polled if it is not
\* dismissed, and no swap is polled if it is dismissed or there is no swundle
C20_LatestPolledUnlessDismissed ==
  RestoreDone =>
    IF rst.out.swundles = <<>> THEN rst.polled = <<>>
    ELSE /\ rst.latest \in MostRecent(rst.out.swundles)
         /\ ~rst.latest.dismissed => rst.polled = rst.latest.swaps
         /\ rst.latest.dismissed => rst.polled = <<>>

\* two swundles were restored, and the swaps of the later one, which is not
\* dismissed, are polled and those of the earlier one are not
C20_Witness ==
  /\ RestoreDone
  /\ Len(rst.out.swundles) = 2
  /\ \E i, j \in DOMAIN rst.out.swundles :
       /\ rst.out.swundles[i].createdDate < rst.out.swundles[j].createdDate
       /\ ~rst.out.swundles[j].dismissed
       /\ ~rst.out.swundles[i].dismissed
       /\ rst.polled = rst.out.swundles[j].swaps
       /\ rst.polled # <<>>
       /\ \A k \in DOMAIN rst.out.swundles[i].swaps :
            rst.out.swundles[i].swaps[k] \notin Range(rst.polled)

\* ---------------------------------------------------------------------
\* C21: restoreSwundles on an input that is neither a valid V2 state nor a
\* valid V1 list (null, an object without a swap field, a V1 list with a
\* repeated send symbol, an entry with unit <= 0 or without an order, a
\* send-group without a list) completes without throwing and dispatches none
\* of txsRestored, txRestored, swapsRestored, swundlesRestored, swundleAdded,
\* so the swundle state is unchanged.
RestoreOver == rst # <<>> /\ rst.stage \in {"restored", "threw"}

NothingDispatched ==
  /\ rst.out.log = <<>>
  /\ rst.out.txsRestored = <<>> /\ rst.out.txRestored = <<>>
  /\ rst.out.swapsRestored = <<>> /\ rst.out.swundlesRestored = <<>>
  /\ rst.out.swundleAdded = <<>>
  /\ rst.out.swundles = rst.before

C21_InvalidRejectedWithoutThrow ==
  (RestoreOver /\ ~ValidPayload(rst.state)) =>
    /\ rst.stage = "restored"
    /\ ~rst.out.threw
    /\ NothingDispatched

\* ---------------------------------------------------------------------
\* C22: every swundle is non-empty at creation: no call of createSwundle or
\* restoreSwundles dispatches ADDED for a swundle whose swap list is empty,
\* including createSwundle([]) and restoring a payload that contains no swaps.
C22_NoEmptySwundleAdded ==
  /\ Dispatched(swundleAdded) => swap # <<>>
  /\ RestoreDone =>
       \A i \in DOMAIN rst.out.swundleAdded : rst.out.swundleAdded[i].swaps # <<>>

\* ---------------------------------------------------------------- C23
StoreLog(type) == {k \in DOMAIN sto.log : sto.log[k].type = type}

\* C23: createSwundle dispatches addSwap for every new swap first, then a
\* single ADDED whose swap list is the ids of the added swaps in input order,
\* and INIT_STARTED only after it; the returned promise is never rejected.
C23_AddedAfterSwapsBeforeInit ==
  (sto # <<>> /\ sto.op = "createSwundle") =>
    /\ Cardinality(StoreLog("ADDED")) <= 1
    /\ Cardinality(StoreLog("addSwap")) = sto.newSwaps
    /\ \A k \in StoreLog("ADDED") :
         /\ \A a \in StoreLog("addSwap") : a < k
         /\ sto.pending = {}
         /\ Len(sto.log[k].swaps) = sto.newSwaps
         /\ \A i \in 1..sto.newSwaps :
              /\ sto.log[k].swaps[i] = sto.added[i]
              /\ sto.added[i] \in sto.swaps \ sto.before.swaps
         /\ sto.log[k].id = sto.id
    /\ \A k \in StoreLog("INIT_STARTED") :
         /\ sto.log[k].id = sto.id
         /\ \E a \in StoreLog("ADDED") : a < k
    /\ sto.result \in {"none", "resolved"}
    /\ sto.stage \in {"caught", "done"} => sto.result = "resolved"

C23_Witness ==
  /\ sto # <<>> /\ sto.op = "createSwundle" /\ sto.stage = "done"
  /\ sto.newSwaps = 2 /\ sto.order = <<2, 1>>

\* ---------------------------------------------------------------- C24
\* C24: removeSwundle of a stored swundle, named by id or given as object,
\* dispatches REMOVED and then removeSwap for every swap of its list, in list
\* order; for an unknown id it dispatches nothing; removeCurrentSwundle with
\* no current swundle dispatches nothing.
C24_RemoveCascades ==
  (sto # <<>> /\ sto.stage = "removed") =>
    LET swundle == getSwundle(sto.before.swundles, sto.arg) IN
    IF swundle # NoSwundle
    THEN /\ sto.log = <<StoreAction("REMOVED", sto.arg, <<>>)>> \o
                      [i \in DOMAIN swundle.swaps |->
                         StoreAction("removeSwap", swundle.swaps[i], <<>>)]
         /\ getSwundle(sto.swundles, sto.arg) = NoSwundle
         /\ sto.swaps = sto.before.swaps \ Range(swundle.swaps)
    ELSE /\ sto.log = <<>>
         /\ sto.swundles = sto.before.swundles
         /\ sto.swaps = sto.before.swaps

C24_Witness ==
  /\ sto # <<>> /\ sto.stage = "removed" /\ sto.op = "removeSwundle"
  /\ Len(sto.log) = 3 /\ Len(sto.swundles) = 1

\* ---------------------------------------------------------------- C25
\* C25: dismissLatestSwundle with a latest swundle leaves no polling interval
\* of that swundle's swaps running and dispatches DISMISSED for that swundle
\* alone, removing neither swundle nor swap; with no swundle it cancels
\* nothing and dispatches nothing.
C25_DismissCancelsPolling ==
  (sto # <<>> /\ sto.stage = "dismissed") =>
    IF sto.before.swundles # <<>>
    THEN LET latest == getSwundle(sto.before.swundles, sto.arg) IN
         /\ latest \in LatestSwundles(sto.before.swundles)
         /\ \A timer \in sto.active : timer[2] \notin Range(latest.swaps)
         /\ sto.log = <<StoreAction("DISMISSED", sto.arg, <<>>)>>
         /\ \A j \in DOMAIN sto.before.swundles :
              sto.swundles[j] =
                [sto.before.swundles[j] EXCEPT
                   !.dismissed = @ \/ sto.before.swundles[j].id = sto.arg]
         /\ Len(sto.swundles) = Len(sto.before.swundles)
         /\ sto.swaps = sto.before.swaps
    ELSE /\ sto.active = Timers(sto.before.intervals)
         /\ sto.log = <<>>
         /\ sto.swundles = <<>>
         /\ sto.swaps = sto.before.swaps

C25_Witness ==
  /\ sto # <<>> /\ sto.stage = "dismissed" /\ Len(sto.before.swundles) = 2
  /\ \E timer \in Timers(sto.before.intervals) :
       /\ timer[1] = "txReceipt"
       /\ timer[2] \in Range(getSwundle(sto.swundles, sto.arg).swaps)
  /\ sto.active = {}

\* C25, the empty case: timers of a swap of no swundle keep running
C25_WitnessNoSwundle ==
  /\ sto # <<>> /\ sto.stage = "dismissed" /\ sto.before.swundles = <<>>
  /\ sto.active # {}

\* ---------------------------------------------------------------- C26
NonceBuilt == ethTx # <<>> /\ ethTx.stage = "built"

\* previousTx is supplied and was sent from the wallet's address, in any case
SameSender ==
  /\ ethTx.previousTx # NoTx
  /\ txs[ethTx.previousTx].from \in {"0xAb", "0xab", "0xAB", "0xaB"}

\* C26 as stated: with a previousTx of the wallet's address and no explicit
\* nonce the nonce is previousTx.nonce + 1; with no previousTx, or one of
\* another address, it is the network's transaction count.
C26_Original_NonceChainedOrCounted ==
  NonceBuilt =>
    /\ (SameSender /\ ethTx.nonce = Undef) =>
         toNumber(ethTx.tx.nonce) = toNumber(txs[ethTx.previousTx].nonce) + 1
    /\ ~SameSender => toNumber(ethTx.tx.nonce) = txCount

\* C26 amended: without an explicit nonce the nonce is previousTx.nonce + 1
\* for a previousTx of the wallet's address (in any case) and the network's
\* transaction count otherwise; an explicit nonce other than 0 is used as
\* given, and an explicit 0 yields the network's transaction count.
C26_NonceChainedCountedOrGiven ==
  NonceBuilt =>
    /\ (SameSender /\ ethTx.nonce = Undef) =>
         toNumber(ethTx.tx.nonce) = toNumber(txs[ethTx.previousTx].nonce) + 1
    /\ (~SameSender /\ ethTx.nonce = Undef) => toNumber(ethTx.tx.nonce) = txCount
    /\ ethTx.nonce \notin {Undef, 0} => toNumber(ethTx.tx.nonce) = ethTx.nonce
    /\ ethTx.nonce = 0 => toNumber(ethTx.tx.nonce) = txCount

C26_Witness ==
  /\ NonceBuilt /\ ethTx.nonce = Undef /\ ethTx.previousTx # NoTx
  /\ txs[ethTx.previousTx].from = "0xab"
  /\ toNumber(ethTx.tx.nonce) = 3 /\ txCount = 0

\* ---------------------------------------------------------------- C27
\* the swaps the check is to count: a draft transaction and no error
CountedSwaps == SelectSeq(swap, LAMBDA s : s.error = NoError /\ s.txId # NoTx)

AtBalanceCheck == pc = "fanout" /\ FanoutJoined

\* C27: when the balance check runs, its totals and its verdict are those of
\* the swaps that have a draft transaction and no error; a swap with an error
\* or without a transaction adds nothing and fails nothing.
C27_OnlyDraftedSwapsCounted ==
  AtBalanceCheck =>
    LET all == walletSendTotals(swap, Len(swap))
        counted == walletSendTotals(CountedSwaps, Len(CountedSwaps))
    IN /\ ~all.thrown
       /\ \A k \in AllKeys :
            /\ OrZero(all.amount[k]) = OrZero(counted.amount[k])
            /\ OrZero(all.feeAmount[k]) = OrZero(counted.feeAmount[k])
       /\ \A bal \in BalanceProfiles :
            checkSufficientBalances(swap, bal).ok
              = checkSufficientBalances(CountedSwaps, bal).ok

\* a swap with an error and a transaction next to a swap that is counted
C27_Witness ==
  /\ AtBalanceCheck
  /\ \E i, j \in DOMAIN swap :
       /\ swap[i].error # NoError /\ swap[i].txId # NoTx
       /\ swap[j].error = NoError /\ swap[j].txId # NoTx
       /\ walletSendTotals(swap, Len(swap)).amount[<<swap[j].sendWalletId, swap[j].sendSymbol>>] > 0

\* ---------------------------------------------------------------- C28
\* the distinct transactions of the counted swaps that send symbol from wallet
DraftsOf(wallet, symbol) ==
  SelectSeq([id \in DOMAIN txs |-> id],
            LAMBDA id : \E i \in DOMAIN swap :
                          /\ swap[i].error = NoError /\ swap[i].txId = id
                          /\ swap[i].sendWalletId = wallet
                          /\ swap[i].sendSymbol = symbol)

\* C28: a transaction shared by several swaps is counted once: the amount
\* summed for a wallet and asset is the sum over the distinct transactions of
\* the counted swaps, and a balance covering the one aggregate transaction's
\* amount plus fee passes the check.
C28_SharedTxCountedOnce ==
  AtBalanceCheck =>
    \A k \in AllKeys :
      LET drafts == DraftsOf(k[1], k[2])
          total == SumSeq([n \in DOMAIN drafts |-> txs[drafts[n]].amount])
      IN /\ OrZero(walletSendTotals(swap, Len(swap)).amount[k]) = total
         /\ (Len(drafts) = 1 /\ isAggregateTransactionSupported(k[1], k[2])) =>
              \A bal \in BalanceProfiles :
                bal[k[1]][k[2]] >= total + txs[drafts[1]].feeAmount
                  => checkSufficientBalances(swap, bal).ok

\* ---------------------------------------------------------------- C29
\* C29: within one signSwundle or sendSwundle call the step is requested at
\* most once for each distinct transaction: two swaps for which it has been
\* requested do not share a transaction.
C29_EachTxStepOnce ==
  \A i, j \in started :
    (swap[i].txId # NoTx /\ swap[i].txId = swap[j].txId) => i = j

\* ---------------------------------------------------------------- C30
\* C30: the status the selector gives a swap with no error, an open order
\* without error, a rate and no stored transaction is pending 'creating_tx'.
C30_SelectorCreatingTx ==
  (stat # <<>> /\ stat.stage = "selected") =>
    \A i \in DOMAIN stat.swaps :
      LET sw == stat.swaps[i] IN
      (/\ ~Truthy(sw.error)
       /\ sw.order.present /\ ~Truthy(sw.order.error) /\ sw.order.status = "open"
       /\ sw.rate # Undef
       /\ ~sw.tx.present)
      => /\ stat.statuses[i].code = "pending"
         /\ stat.statuses[i].detailsCode = "creating_tx"

\* ---------------------------------------------------------------- C31
\* C31: once INIT_SUCCESS is dispatched, every swap of the swundle that has no
\* error has a transaction attached.
C31_SuccessMeansDrafted ==
  Dispatched(initSuccess) =>
    \A i \in SwapIds : swap[i].error = NoError => swap[i].txId # NoTx

\* ---------------------------------------------------------------- C32
\* C32: a swap whose error is a text with 'insufficient funds' in it, in any
\* letter case, is failed/insufficient_funds; any other swap with an error is
\* failed/error with the fixed message of errorType pollTransactionReceipt or
\* sendTransaction, the error text itself for any other text, and 'Unknown
\* error' only for an error that is not a text.
C32_FailureClassification ==
  (stat # <<>> /\ stat.stage = "statuses") =>
    \A i \in DOMAIN stat.swaps :
      LET sw == stat.swaps[i]
          status == stat.statuses[i]
      IN Truthy(sw.error) =>
           /\ status.code = "failed"
           /\ IF isString(sw.error)
                 /\ includes(toLowerCase(sw.error.chars), InsufficientFundsText)
              THEN status.detailsCode = "insufficient_funds"
              ELSE /\ status.detailsCode = "error"
                   /\ status.details =
                        IF ~isString(sw.error) THEN Literal("Unknown error")
                        ELSE IF sw.errorType = Literal("pollTransactionReceipt")
                        THEN Literal("Failed to check deposit txn status")
                        ELSE IF sw.errorType = Literal("sendTransaction")
                        THEN Literal("Error sending deposit txn")
                        ELSE sw.error

\* ---------------------------------------------------------------- C33
\* two send-groups of the list have the same symbol
RepeatedSendSymbol(state) ==
  /\ state.type = "array"
  /\ \E i, j \in DOMAIN state.groups :
       i < j /\ state.groups[i].symbol # ""
             /\ state.groups[i].symbol = state.groups[j].symbol

\* two entries of one send-group's list have the same receive symbol
RepeatedReceiveSymbol(state) ==
  \E j \in DOMAIN state.groups : \E i, k \in DOMAIN state.groups[j].list :
    i < k /\ state.groups[j].list[i].symbol = state.groups[j].list[k].symbol

\* C33: a V1 list in which two send-groups have the same symbol is rejected,
\* nothing of it is restored; a list that is valid but for two entries of one
\* group with the same receive symbol is accepted, and one swap is restored
\* for each of its entries, the repeated ones included.
C33_DuplicateReceiveSymbolsKept ==
  /\ (RestoreOver /\ RepeatedSendSymbol(rst.state)) =>
       /\ rst.out.swapsRestored = <<>>
       /\ rst.out.swundleAdded = <<>>
       /\ rst.out.swundles = rst.before
  /\ (RestoreOver /\ WellFormedV1(rst.state) /\ RepeatedReceiveSymbol(rst.state)) =>
       /\ rst.stage = "restored"
       /\ Len(rst.out.swapsRestored) = 1
       /\ OneSwapPerEntry(rst.state.groups, rst.out.swapsRestored[1])

C33_Witness ==
  /\ RestoreDone /\ WellFormedV1(rst.state)
  /\ Len(rst.state.groups) = 1 /\ Len(rst.state.groups[1].list) = 2
  /\ rst.state.groups[1].list[1].symbol = rst.state.groups[1].list[2].symbol
  /\ Len(rst.out.swapsRestored[1]) = 2
  /\ rst.out.swapsRestored[1][1].receiveSymbol = rst.out.swapsRestored[1][2].receiveSymbol

\* C33, the rejected case: two groups that both send ETH
C33_WitnessRejected ==
  /\ RestoreDone /\ RepeatedSendSymbol(rst.state)
  /\ \A j \in DOMAIN rst.state.groups : rst.state.groups[j].hasList
  /\ rst.out.swapsRestored = <<>>

\* ---------------------------------------------------------------- C34
PaymentReturned == pay # <<>> /\ pay.stage = "done" /\ pay.result.thrown = NoThrow

\* the estimated fee of the returned payment's shape
EstimatedFee ==
  estimateTxFee(pay.feeRate, Len(pay.result.inputUtxos),
                Len(pay.desiredOutputs) + 1, pay.isSegwit)

\* C34: in every payment buildPaymentTx returns, the selected inputs total
\* the outputs plus the fee plus the change; the fee is not negative, is at
\* least the estimated fee for the selected inputs and is above it by at most
\* dustThreshold.
C34_ValueConserved ==
  PaymentReturned =>
    /\ TotalValue(pay.result.inputUtxos)
         = TotalAmount(pay.result.outputs) + pay.result.fee + pay.result.change
    /\ pay.result.fee >= 0
    /\ pay.result.fee >= EstimatedFee
    /\ pay.result.fee - EstimatedFee <= pay.dustThreshold

\* change below the dust threshold has been folded into the fee
C34_Witness ==
  /\ PaymentReturned
  /\ pay.result.change = 0
  /\ pay.result.fee > EstimatedFee /\ EstimatedFee > 0
  /\ Len(pay.result.inputUtxos) = 2

\* C34, the other two shapes: a change output, and the fee taken from the
\* first output when the whole balance is sent
C34_WitnessChange ==
  /\ PaymentReturned /\ pay.result.change > 0 /\ pay.result.fee = EstimatedFee
  /\ EstimatedFee > 0

C34_WitnessSendAll ==
  /\ PaymentReturned /\ EstimatedFee > 0
  /\ TotalAmount(pay.desiredOutputs) = TotalValue(pay.account.utxos)
  /\ pay.result.outputs[1].amount = pay.desiredOutputs[1].amount - EstimatedFee

\* ---------------------------------------------------------------- C35
\* the counted swaps all send from the Ethereum wallet, a token swap and a
\* native-asset swap among them; every fee is payable in ETH
TokenAndNativeSwaps ==
  /\ \A i \in DOMAIN CountedSwaps : CountedSwaps[i].sendWalletId = "eth1"
  /\ \E i, j \in DOMAIN CountedSwaps :
       CountedSwaps[i].sendSymbol = "TOK" /\ CountedSwaps[j].sendSymbol = "ETH"

\* what the counted swaps that send symbol send in total, and the fees of all
AmountSent(symbol) ==
  SumSeq([i \in DOMAIN CountedSwaps |->
            IF CountedSwaps[i].sendSymbol = symbol
            THEN SwapTx(CountedSwaps[i]).amount ELSE 0])

FeesPaid == SumSeq([i \in DOMAIN CountedSwaps |-> SwapTx(CountedSwaps[i]).feeAmount])

\* C35: for a wallet with a token swap and a native-asset swap the check
\* passes exactly when the native balance is at least the native amount plus
\* every fee and the token balance is at least the token amount; a balance
\* equal to what is needed passes.
C35_FeeChargedToFeeAsset ==
  (AtBalanceCheck /\ TokenAndNativeSwaps) =>
    \A bal \in BalanceProfiles :
      checkSufficientBalances(swap, bal).ok
        <=> /\ bal["eth1"]["ETH"] >= AmountSent("ETH") + FeesPaid
            /\ bal["eth1"]["TOK"] >= AmountSent("TOK")

\* the check has passed on balances that equal what is needed
C35_Witness ==
  /\ TokenAndNativeSwaps
  /\ Called("checkSufficientBalances.returned", 0) /\ pc = "orders"
  /\ balances["eth1"]["ETH"] = AmountSent("ETH") + FeesPaid
  /\ balances["eth1"]["TOK"] = AmountSent("TOK")
  /\ FeesPaid = 2

\* C35, the failing side: the native balance covers the native amount and
\* one fee but not both, and the check has failed
C35_WitnessShort ==
  /\ TokenAndNativeSwaps
  /\ Called("checkSufficientBalances", 0) /\ pc = "failed"
  /\ ~Called("checkSufficientBalances.returned", 0)
  /\ balances["eth1"]["ETH"] >= AmountSent("ETH") + 1
  /\ balances["eth1"]["ETH"] < AmountSent("ETH") + FeesPaid
  /\ balances["eth1"]["TOK"] >= AmountSent("TOK")

====
